---- MODULE Spec2Model ----
(***************************************************************************)
(* GreenFlow AI core: AnomalyDetector (features/anomaly_detector.py),      *)
(* AlertEngine (features/alert_engine.py) and SimulationEngine             *)
(* (features/simulation_engine.py).                                        *)
(*                                                                         *)
(* Numbers.  Sensor values and clock readings are integers.  Means,        *)
(* variances and quartiles are kept as exact fractions, so every           *)
(* comparison of the source (z > 2.8, value > upper, now - last < 120) is  *)
(* decided exactly as over the reals; the square root of _mean_std is      *)
(* never taken: z is carried as z*z.                                       *)
(***************************************************************************)
EXTENDS Integers, Sequences, FiniteSets, TLC

VARIABLES
    windows,      \* AnomalyDetector._windows: <<sensor, field>> -> sequence of values
    last_alert,   \* AnomalyDetector._last_alert: partial map key -> clock reading
    d_history,    \* AnomalyDetector._history, most recent first
    found,        \* the list returned by the last AnomalyDetector.ingest call
    d_log,        \* every event ever emitted, oldest first: [key, now, snap_len]
    d_calls,      \* number of ingest calls made
    d_args,       \* the arguments of the last ingest call, where recorded
    received,     \* every finite value received per key, oldest first
    d_raised,     \* whether the last ingest call raised instead of returning
    cooldowns,    \* AlertEngine._cooldowns: partial map key string -> clock reading
    a_history,    \* AlertEngine._history, most recent first
    total_fired,  \* AlertEngine._total_fired
    fired,        \* the list returned by the last AlertEngine.evaluate call
    a_log,        \* every alert ever fired, oldest first: [city, alert_type, now]
    a_calls,      \* number of evaluate calls made
    a_rules,      \* AlertEngine._rules
    a_args,       \* the arguments of the last evaluate call
    t_rule,       \* _classify_threshold: its rule argument
    t_value,      \* _classify_threshold: its value argument
    t_out,        \* _classify_threshold: its result, "pending" before the call
    sim_in,       \* SimulationEngine.simulate: its arguments
    sim_out,      \* SimulationEngine.simulate: its result, NoResult before the call
    threads,      \* threads inside _maybe_fire, or coroutines: position and locals
    ea,           \* a call of AlertEngine.evaluate_async: position and locals
    db,           \* the db_session handed to evaluate_async
    q_out,        \* the result of the last get_recent, get_window_stats or _percentiles call
    clock         \* the last reading of time.time()

det_vars ==
    <<windows, last_alert, d_history, found, d_log, d_calls, d_args, received, d_raised>>
alert_vars ==
    <<cooldowns, a_history, total_fired, fired, a_log, a_calls, a_rules, a_args>>
thr_vars == <<t_rule, t_value, t_out>>
sim_vars == <<sim_in, sim_out>>
ext_vars == <<threads, ea, db, q_out>>
vars == <<det_vars, alert_vars, thr_vars, sim_vars, ext_vars, clock>>

NoResult == [none |-> TRUE]

\* the ThresholdRule dataclass; bounds and values in hundredths
ThresholdRule(field, low_warn, medium_warn, high_warn, critical, alert_type, unit) ==
    [field |-> field, low_warn |-> low_warn, medium_warn |-> medium_warn,
     high_warn |-> high_warn, critical |-> critical, alert_type |-> alert_type,
     unit |-> unit]

DEFAULT_RULES ==
    << ThresholdRule("co2_ppm", 60000, 70000, 80000, 95000, "CO2_HIGH", "ppm"),
       ThresholdRule("aqi", 10000, 15000, 20000, 30000, "AQI_HIGH", "AQI"),
       ThresholdRule("risk_score", 5000, 6000, 7000, 8500, "RISK_HIGH", "%"),
       ThresholdRule("temperature_c", 3500, 3800, 4000, 4500, "HEAT_HIGH", "C"),
       ThresholdRule("carbon_score", 70, 80, 90, 95, "CARBON_HIGH", "") >>

\* AlertEngine.__init__ with no rules argument
AlertIdle ==
    /\ cooldowns = <<>>
    /\ a_history = <<>>
    /\ total_fired = 0
    /\ fired = <<>>
    /\ a_log = <<>>
    /\ a_calls = 0
    /\ a_rules = DEFAULT_RULES
    /\ a_args = NoResult

\* no _classify_threshold call under way
ThrIdle == t_rule = <<>> /\ t_value = 0 /\ t_out = "pending"

\* no simulate call under way
SimIdle == sim_in = NoResult /\ sim_out = NoResult

\* no thread, no asynchronous call, no query
ExtIdle == threads = <<>> /\ ea = NoResult /\ db = NoResult /\ q_out = NoResult

(***************************************************************************)
(* Bounds of the model                                                     *)
(***************************************************************************)
MaxIngests == 2

(***************************************************************************)
(* anomaly_detector.py: configuration                                      *)
(***************************************************************************)
WINDOW_SIZE == 60
MIN_WINDOW == 10
\* Z_THRESHOLD = 2.8 = 14/5
Z_THRESHOLD_NUM == 14
Z_THRESHOLD_DEN == 5
\* IQR_MULTIPLIER = 2.5 = 5/2
IQR_MULTIPLIER_NUM == 5
IQR_MULTIPLIER_DEN == 2
COOLDOWN_SECS == 120
\* the literal 20 of `if len(snapshot) >= 20`
IQR_MIN_SAMPLES == 20
\* deque(maxlen=500)
HISTORY_MAXLEN == 500

(***************************************************************************)
(* Values a reading can carry: a finite number, or None / NaN / +Inf /     *)
(* -Inf.                                                                   *)
(***************************************************************************)
Num(x) == [k |-> "num", v |-> x]
NoneVal == [k |-> "None", v |-> 0]
NaN == [k |-> "nan", v |-> 0]
PosInf == [k |-> "inf", v |-> 0]
NegInf == [k |-> "-inf", v |-> 0]
BadValues == {NoneVal, NaN, PosInf, NegInf}

\* the isfinite test forgotten
IsSkippedNoneOnly(val) == val.k = "None"

\* `value is None or not math.isfinite(value)`
IsSkipped(val) == val.k = "None" \/ val.k \in {"nan", "inf", "-inf"}

(***************************************************************************)
(* Statistical helpers                                                     *)
(***************************************************************************)
RECURSIVE SumTo(_, _)
\* s[1] + ... + s[i], added up half by half
SumTo(s, i) ==
    IF i = 0 THEN 0
    ELSE IF i = 1 THEN s[1]
    ELSE LET h == i \div 2
         IN  SumTo(s, h) + SumTo(SubSeq(s, h + 1, i), i - h)

\* sum(values)
SumSeq(s) == SumTo(s, Len(s))

RECURSIVE SumSqDevTo(_, _, _, _)
SumSqDevTo(s, n, S, i) ==
    IF i = 0 THEN 0
    ELSE IF i = 1 THEN (n * s[1] - S) * (n * s[1] - S)
    ELSE LET h == i \div 2
         IN  SumSqDevTo(s, n, S, h) + SumSqDevTo(SubSeq(s, h + 1, i), n, S, i - h)

\* sum over x of (n*x - S)^2  =  n^2 * sum (x - mu)^2
SumSqDev(s, n, S) == SumSqDevTo(s, n, S, Len(s))

\* _mean_std: mu = mu_num / mu_den, variance = var_num / var_den (std is its
\* root).  n < 2 gives (values[0] or 0.0, 0.0).
MeanStd(values) ==
    LET n == Len(values)
        S == SumSeq(values)
    IN  IF n < 2
        THEN [mu_num |-> IF n = 1 THEN values[1] ELSE 0, mu_den |-> 1,
              var_num |-> 0, var_den |-> 1]
        ELSE [mu_num |-> S, mu_den |-> n,
              var_num |-> SumSqDev(values, n, S), var_den |-> n * n * (n - 1)]

\* a finite float whose square is beyond the float range (1e200), as a token:
\* it is compared and stored, never squared
Huge == 100000000

\* `(x - mu) ** 2` raises OverflowError when |x - mu| is over about 1.3e154:
\* with n >= 2 samples of which some are Huge and some are not, mu is about
\* Huge / n and every deviation is of the order of Huge
MeanStdRaises(values) ==
    /\ Len(values) >= 2
    /\ \E i, j \in 1..Len(values) : values[i] = Huge /\ values[j] # Huge

RECURSIVE Merge(_, _)
\* the merge of two sorted lists, split at the middle element of a: the
\* elements of b smaller than it go before it, the others after it
Merge(a, b) ==
    IF a = <<>> THEN b
    ELSE IF b = <<>> THEN a
    ELSE LET h == (Len(a) + 1) \div 2
             c == Cardinality({k \in DOMAIN b : b[k] < a[h]})
         IN  Merge(SubSeq(a, 1, h - 1), SubSeq(b, 1, c)) \o <<a[h]>>
                 \o Merge(SubSeq(a, h + 1, Len(a)), SubSeq(b, c + 1, Len(b)))

RECURSIVE Sorted(_)
\* sorted(values)
Sorted(s) ==
    IF Len(s) <= 1 THEN s
    ELSE LET h == Len(s) \div 2
         IN  Merge(Sorted(SubSeq(s, 1, h)), Sorted(SubSeq(s, h + 1, Len(s))))

\* _median, of a sorted list, as TWICE the median (so that halves stay integers)
Median(values) ==
    LET n == Len(values)
        mid == n \div 2
    IN  IF n = 0 THEN 0
        ELSE IF n % 2 = 1 THEN 2 * values[mid + 1]
        ELSE values[mid] + values[mid + 1]

\* _percentiles: (Q1, Q3), each as twice its value
\* the middle element of an odd-sized list kept in the upper half
PercentilesMiddleKept(values) ==
    LET s == Sorted(values)
        n == Len(s)
        mid == n \div 2
    IN  [q1 |-> Median(SubSeq(s, 1, mid)), q3 |-> Median(SubSeq(s, mid + 1, n))]

Percentiles(values) ==
    LET s == Sorted(values)
        n == Len(s)
        mid == n \div 2
    IN  [q1 |-> Median(SubSeq(s, 1, mid)),
         q3 |-> Median(SubSeq(s, mid + (IF n % 2 = 1 THEN 1 ELSE 0) + 1, n))]

(***************************************************************************)
(* AnomalyDetector._check, step by step                                    *)
(***************************************************************************)
\* a deque that drops the value just appended instead of the oldest one
WindowAppendKeepOldest(window, value) ==
    IF Len(window) >= WINDOW_SIZE THEN window ELSE Append(window, value)

\* window.append(value) on a deque(maxlen=window_size)
WindowAppend(window, value) ==
    IF Len(window) >= WINDOW_SIZE THEN Append(Tail(window), value)
    ELSE Append(window, value)

\* detection one sample early
TooLittleHistoryEarly(snapshot) == Len(snapshot) < MIN_WINDOW - 1

\* `if len(snapshot) < self._min_window: return None`
TooLittleHistory(snapshot) == Len(snapshot) < MIN_WINDOW

\* `if std > 1e-10`: integer samples have variance 0 or at least 1/(n*n*(n-1))
StdPositive(ms) == ms.var_num > 0

ZNull == [null |-> TRUE, num |-> 0, den |-> 1]

\* z_score = abs((value - mu) / std), carried as z*z = num / den; a Huge
\* value over a window of ordinary samples is the ratio 1 / 0, above every
\* threshold
ZScore(value, ms) ==
    LET d == value * ms.mu_den - ms.mu_num
    IN  IF value = Huge THEN [null |-> FALSE, num |-> 1, den |-> 0]
        ELSE [null |-> FALSE,
              num |-> d * d * (ms.var_den \div (ms.mu_den * ms.mu_den)),
              den |-> ms.var_num]

\* z > c, for a z that is not None and an integer-ratio c = cn / cd >= 0
ZGreater(z, cn, cd) == cd * cd * z.num > cn * cn * z.den

\* z >= threshold instead of z > threshold
ZFlagInclusive(z) ==
    ~z.null /\ Z_THRESHOLD_DEN * Z_THRESHOLD_DEN * z.num
                  >= Z_THRESHOLD_NUM * Z_THRESHOLD_NUM * z.den

\* z_flag = z_score > self._z_threshold
ZFlag(z) == ~z.null /\ ZGreater(z, Z_THRESHOLD_NUM, Z_THRESHOLD_DEN)

\* the IQR path one sample early
IqrEvaluatedEarly(snapshot) == Len(snapshot) >= IQR_MIN_SAMPLES - 1

\* `if len(snapshot) >= 20`
IqrEvaluated(snapshot) == Len(snapshot) >= IQR_MIN_SAMPLES

\* iqr_flag = (value > upper) or (value < lower), upper = q3 + k*iqr,
\* lower = q1 - k*iqr; q.q1 and q.q3 are twice the quartiles
OutsideFences(value, q) ==
    LET iqr2 == q.q3 - q.q1
        m == 2 * IQR_MULTIPLIER_DEN
    IN  \/ m * value > IQR_MULTIPLIER_DEN * q.q3 + IQR_MULTIPLIER_NUM * iqr2
        \/ m * value < IQR_MULTIPLIER_DEN * q.q1 - IQR_MULTIPLIER_NUM * iqr2

IqrFlag(snapshot, value) ==
    IqrEvaluated(snapshot) /\ OutsideFences(value, Percentiles(snapshot))

\* self._last_alert.get(key, 0.0)
LastAlertGet(la, key) == IF key \in DOMAIN la THEN la[key] ELSE 0

\* a cooldown one second short
DetInCooldownShort(la, key, now) ==
    now - LastAlertGet(la, key) < COOLDOWN_SECS - 1

\* `if now - self._last_alert.get(key, 0.0) < self._cooldown: return None`
DetInCooldown(la, key, now) == now - LastAlertGet(la, key) < COOLDOWN_SECS

\* the thresholds met inclusively (>=)
ClassifySeverityInclusive(z) ==
    IF z.null THEN "LOW"
    ELSE IF ~ZGreater([z EXCEPT !.num = z.den, !.den = z.num], 1, 5) THEN "CRITICAL"
    ELSE IF ~ZGreater([z EXCEPT !.num = z.den, !.den = z.num], 1, 4) THEN "HIGH"
    ELSE IF ~ZGreater([z EXCEPT !.num = z.den, !.den = z.num], 1, 3) THEN "MEDIUM"
    ELSE "LOW"

\* _classify_severity
ClassifySeverity(z) ==
    IF z.null THEN "LOW"
    ELSE IF ZGreater(z, 5, 1) THEN "CRITICAL"
    ELSE IF ZGreater(z, 4, 1) THEN "HIGH"
    ELSE IF ZGreater(z, 3, 1) THEN "MEDIUM"
    ELSE "LOW"

\* `x if z else None` / `if z and ...`: None and 0.0 are both falsy
ZTruthy(z) == ~z.null /\ z.num # 0

\* _build_message: the text is determined by these parts
BuildMessage(sensor_id, field, value, ms, z, iqr) ==
    [kind |-> "anomaly", sensor_id |-> sensor_id, field |-> field,
     value |-> value, mu |-> <<ms.mu_num, ms.mu_den>>,
     methods |-> (IF ZTruthy(z) /\ ZGreater(z, Z_THRESHOLD_NUM, Z_THRESHOLD_DEN)
                  THEN <<"Z-score">> ELSE <<>>)
                 \o (IF iqr THEN <<"IQR-fence">> ELSE <<>>)]

NoEvent == [none |-> TRUE]

\* m1 with key k set to v (a dict assignment)
MapSet(m, k, v) == [x \in DOMAIN m \cup {k} |-> IF x = k THEN v ELSE m[x]]

\* D: [windows, last_alert, history, log, clock].  _check(sensor_id, field,
\* value): the state after it and the event it returns (or NoEvent), or
\* raised when _mean_std raises, after the value went into the window.  The
\* first clock reading is `now`; the AnomalyEvent's default timestamp is a
\* second reading, drift later.
Check(D, sensor_id, field, value, drift) ==
    LET key == <<sensor_id, field>>
        snapshot == D.windows[key]
        W == [D.windows EXCEPT ![key] = WindowAppend(snapshot, value)]
        D1 == [D EXCEPT !.windows = W]
        ms == MeanStd(snapshot)
        z == IF StdPositive(ms) THEN ZScore(value, ms) ELSE ZNull
        z_flag == ZFlag(z)
        iqr_flag == IqrFlag(snapshot, value)
        now == D.clock
    IN  IF TooLittleHistory(snapshot)
        THEN [D |-> D1, evt |-> NoEvent, raised |-> FALSE]
        ELSE IF MeanStdRaises(snapshot)
        THEN [D |-> D1, evt |-> NoEvent, raised |-> TRUE]
        ELSE IF ~(z_flag \/ iqr_flag)
        THEN [D |-> D1, evt |-> NoEvent, raised |-> FALSE]
        ELSE IF DetInCooldown(D.last_alert, key, now)
        THEN [D |-> D1, evt |-> NoEvent, raised |-> FALSE]
        ELSE [D |-> [D1 EXCEPT !.last_alert = MapSet(D.last_alert, key, now),
                               !.clock = now + drift,
                               !.log = Append(D.log,
                                   [key |-> key, now |-> now,
                                    snap_len |-> Len(snapshot)])],
              raised |-> FALSE,
              evt |-> [none |-> FALSE, sensor_id |-> sensor_id, field |-> field,
                       value |-> value,
                       z_score |-> IF ZTruthy(z) THEN z ELSE ZNull,
                       iqr_flag |-> iqr_flag,
                       mean |-> <<ms.mu_num, ms.mu_den>>,
                       std |-> <<ms.var_num, ms.var_den>>,
                       severity |-> ClassifySeverity(z),
                       timestamp |-> now + drift,
                       message |-> BuildMessage(sensor_id, field, value, ms,
                                                z, iqr_flag)]]

\* a deque that never evicts
HistoryAppendLeftUnbounded(h, e, maxlen) == <<e>> \o h

\* self._history.appendleft(evt) on a deque(maxlen=500)
HistoryAppendLeft(h, e, maxlen) ==
    IF Len(h) >= maxlen THEN <<e>> \o SubSeq(h, 1, maxlen - 1) ELSE <<e>> \o h

RECURSIVE IngestLoop(_, _, _, _, _)
\* the for loop of ingest over readings.items(), a sequence of <<field, value>>;
\* an exception of _check leaves the loop and the call, and nothing is returned
IngestLoop(D, sensor_id, readings, drift, acc) ==
    IF readings = <<>> THEN [D |-> D, found |-> acc, raised |-> FALSE]
    ELSE LET field_name == Head(readings)[1]
             value == Head(readings)[2]
         IN  IF IsSkipped(value)
             THEN IngestLoop(D, sensor_id, Tail(readings), drift, acc)
             ELSE LET r == Check(D, sensor_id, field_name, value.v, drift)
                  IN  IF r.raised
                      THEN [D |-> r.D, found |-> <<>>, raised |-> TRUE]
                      ELSE IF r.evt.none
                      THEN IngestLoop(r.D, sensor_id, Tail(readings), drift, acc)
                      ELSE IngestLoop(
                               [r.D EXCEPT !.history =
                                   HistoryAppendLeft(r.D.history, r.evt,
                                                     HISTORY_MAXLEN)],
                               sensor_id, Tail(readings), drift,
                               Append(acc, r.evt))

\* AnomalyDetector.ingest(sensor_id, readings)
IngestResult(D, sensor_id, readings, drift) ==
    IngestLoop(D, sensor_id, readings, drift, <<>>)

DetState == [windows |-> windows, last_alert |-> last_alert,
             history |-> d_history, log |-> d_log, clock |-> clock]

(***************************************************************************)
(* The detector's environment: one sensor, two fields, a small set of      *)
(* values, and the time that passes between two calls.                     *)
(***************************************************************************)
Sensors == {"s1"}
Fields == {"co2_ppm", "aqi"}
DetKeys == Sensors \X Fields
GoodValues == {0, 1, 43, 44}

\* the values of V allowed for field f: Vc for co2_ppm, Va for aqi
ValuesOf(f, Vc, Va) == IF f = "co2_ppm" THEN Vc ELSE Va

\* readings.items(): the dicts over Fields, co2_ppm valued in Vc and aqi in
\* Va, in every insertion order
Dicts(Vc, Va) ==
    LET One == {<<f, x>> \in Fields \X (Vc \cup Va) : x \in ValuesOf(f, Vc, Va)}
    IN  {<<>>}
        \cup {<<p>> : p \in One}
        \cup {<<t[1], t[2]>> : t \in {u \in One \X One : u[1][1] # u[2][1]}}

\* one co2_ppm value alone, or co2_ppm and aqi at 44 in either order
DetReadings ==
    Dicts({Num(x) : x \in GoodValues}, {}) \cup Dicts({Num(44)}, {Num(44)})

\* seconds between the previous clock reading and the next call
DetDeltas == {119, 120}
\* seconds between `now = time.time()` and the event's own timestamp
Drifts == {0, 1}

Zeros(n) == [i \in 1..n |-> 0]
\* 4 tens then 16 zeros: Q1 = Q3 = 0 at 20 samples, mean 2
Heavy == <<10, 10, 10, 10>> \o Zeros(16)
\* mean 15, sample std exactly 10
Spread == <<0, 30, 0, 30, 15, 15, 15, 15, 15, 15>>
Prefix(w, n) == SubSeq(w, 1, n)

\* ingesting w value by value into an empty window raises no anomaly, so the
\* cooldown table and the history are still empty after it
Benign(w) ==
    \A i \in 1..Len(w) :
        LET snapshot == SubSeq(w, 1, i - 1)
            ms == MeanStd(snapshot)
            z == IF StdPositive(ms) THEN ZScore(w[i], ms) ELSE ZNull
        IN  TooLittleHistory(snapshot) \/ ~(ZFlag(z) \/ IqrFlag(snapshot, w[i]))

WarmWindows == {w \in {<<>>, Prefix(Heavy, 9), Prefix(Heavy, 19), Heavy, Spread} :
                  Len(w) <= WINDOW_SIZE /\ Benign(w)}

StartClock == 1000

NoArgs == [none |-> TRUE]

\* AnomalyDetector.__init__, followed by a warm-up of the windows that raised
\* no anomaly: the co2_ppm window is w1, the aqi window w2
DetInitWith(W1, W2) ==
    /\ \E w1 \in W1 \cap WarmWindows, w2 \in W2 \cap WarmWindows :
         windows = [k \in DetKeys |-> IF k[2] = "co2_ppm" THEN w1 ELSE w2]
    /\ last_alert = <<>>
    /\ d_history = <<>>
    /\ found = <<>>
    /\ d_log = <<>>
    /\ d_calls = 0
    /\ d_args = NoArgs
    /\ received = windows
    /\ d_raised = FALSE

RECURSIVE ReceivedAfter(_, _, _, _)
\* the values received per key once the finite values of readings[i..] have
\* arrived, in the order of the dict
ReceivedAfter(rec, sensor_id, readings, i) ==
    IF i > Len(readings) THEN rec
    ELSE LET key == <<sensor_id, readings[i][1]>>
             val == readings[i][2]
         IN  ReceivedAfter(IF val.k = "num"
                           THEN [rec EXCEPT ![key] = Append(@, val.v)]
                           ELSE rec,
                           sensor_id, readings, i + 1)

\* one call of AnomalyDetector.ingest, delta seconds after the last clock reading
Ingest(sensor_id, readings, delta, drift) ==
    /\ d_calls < MaxIngests
    /\ \E r \in {IngestResult([DetState EXCEPT !.clock = clock + delta],
                              sensor_id, readings, drift)} :
           /\ windows' = r.D.windows
           /\ last_alert' = r.D.last_alert
           /\ d_history' = r.D.history
           /\ d_log' = r.D.log
           /\ clock' = r.D.clock
           /\ found' = r.found
           /\ d_raised' = r.raised
    /\ d_calls' = d_calls + 1
    /\ received' = ReceivedAfter(received, sensor_id, readings, 1)

OthersIdle == AlertIdle /\ ThrIdle /\ SimIdle /\ ExtIdle
not_det_vars == <<alert_vars, thr_vars, sim_vars, ext_vars>>

DetInit == DetInitWith(WarmWindows, {Heavy}) /\ clock = StartClock /\ OthersIdle

DetNext ==
    \E s \in Sensors, r \in DetReadings, delta \in DetDeltas, drift \in Drifts :
        Ingest(s, r, delta, drift) /\ UNCHANGED <<d_args, not_det_vars>>

SpecDetector == DetInit /\ [][DetNext]_vars

\* Readings with missing and non-finite values, each call recorded in d_args.
IngReadings == Dicts({Num(0), Num(44)} \cup BadValues, {Num(0), Num(44)} \cup BadValues)
IngDeltas == {120}

IngInit == DetInitWith({Heavy}, {Heavy}) /\ clock = StartClock /\ OthersIdle

IngNext ==
    \E s \in Sensors, r \in IngReadings, delta \in IngDeltas :
        /\ Ingest(s, r, delta, 0)
        /\ d_args' = [none |-> FALSE, sensor_id |-> s, readings |-> r,
                      delta |-> delta, drift |-> 0]
        /\ UNCHANGED not_det_vars

SpecIngest == IngInit /\ [][IngNext]_vars

(***************************************************************************)
(* Claims about the AnomalyDetector                                        *)
(***************************************************************************)
\* C2: two AnomalyEvents emitted for the same (sensorId, field) key are never
\* emitted less than 120 s apart (emission time = the clock reading `now`
\* that the cooldown test used and stored).
C2_EventsCooldownApart ==
    \A i, j \in 1..Len(d_log) :
        (i < j /\ d_log[i].key = d_log[j].key)
            => d_log[j].now - d_log[i].now >= 120

\* two events of one key have been emitted
C2_Witness ==
    \E i, j \in 1..Len(d_log) : i < j /\ d_log[i].key = d_log[j].key

\* The claim's own arithmetic, from the sums and the ranks of the snapshot.
RECURSIVE C4_SumSq(_, _)
C4_SumSq(w, i) ==
    IF i = 0 THEN 0
    ELSE IF i = 1 THEN w[1] * w[1]
    ELSE C4_SumSq(w, i \div 2) + C4_SumSq(SubSeq(w, i \div 2 + 1, i), i - i \div 2)

RECURSIVE C4_Sum(_, _)
C4_Sum(w, i) ==
    IF i = 0 THEN 0
    ELSE IF i = 1 THEN w[1]
    ELSE C4_Sum(w, i \div 2) + C4_Sum(SubSeq(w, i \div 2 + 1, i), i - i \div 2)

\* std > 1e-10 and |v - mean| / std > 2.8, i.e. 25 (nv - S)^2 (n-1) > 196 n (nQ - S^2)
C4_ZFlag(w, v) ==
    LET n == Len(w)
        S == C4_Sum(w, n)
        Q == C4_SumSq(w, n)
    IN  /\ n >= 2
        /\ n * Q - S * S > 0
        /\ 25 * (n * v - S) * (n * v - S) * (n - 1) > 196 * n * (n * Q - S * S)

\* the k-th smallest sample
C4_Kth(w, k) ==
    CHOOSE x \in {w[i] : i \in 1..Len(w)} :
        /\ Cardinality({i \in 1..Len(w) : w[i] < x}) < k
        /\ k <= Cardinality({i \in 1..Len(w) : w[i] <= x})

\* twice the median of the samples of ranks lo+1 .. lo+h
C4_Median2(w, lo, h) ==
    IF h % 2 = 1 THEN 2 * C4_Kth(w, lo + (h + 1) \div 2)
    ELSE C4_Kth(w, lo + h \div 2) + C4_Kth(w, lo + h \div 2 + 1)

\* at least 20 samples and v strictly outside [Q1 - 2.5 IQR, Q3 + 2.5 IQR]
C4_IqrFlag(w, v) ==
    LET n == Len(w)
        h == n \div 2
        q1 == C4_Median2(w, 0, h)
        q3 == C4_Median2(w, n - h, h)
    IN  /\ n >= 20
        /\ \/ 4 * v > 2 * q3 + 5 * (q3 - q1)
           \/ 4 * v < 2 * q1 - 5 * (q3 - q1)

\* an event of this key was emitted less than 120 s before `now`
C4_InCooldown(key, now) ==
    \E i \in 1..Len(d_log) : d_log[i].key = key /\ now - d_log[i].now < 120

\* C4: ingest emits an event for a finite value on a key iff the pre-insert
\* snapshot has at least 10 samples and (z_flag or iqr_flag) and the key is
\* not in cooldown; z exactly 2.8 and a value exactly on a fence are not
\* flagged.  Stated of a _check made at the clock reading of each reachable
\* state, among them the readings 119 s and 120 s after an event of the key.
C4_EmitsIff ==
    \A key \in DetKeys, v \in GoodValues :
        LET r == Check(DetState, key[1], key[2], v, 0)
            w == windows[key]
        IN  (~r.evt.none) <=>
                /\ Len(w) >= 10
                /\ C4_ZFlag(w, v) \/ C4_IqrFlag(w, v)
                /\ ~C4_InCooldown(key, clock)

\* an event flagged by the IQR fence alone has been emitted
C4_Witness ==
    \E i \in 1..Len(d_history) :
        d_history[i].iqr_flag /\ d_history[i].message.methods = <<"IQR-fence">>

\* C5: no event is emitted for a key whose window held fewer than 10 values
\* before the call.
C5_NoEventBelowMinWindow ==
    [][\A i \in 1..Len(found') :
          Len(windows[<<found'[i].sensor_id, found'[i].field>>]) >= 10]_vars

\* detection has started on a snapshot of exactly 10 samples, after a call that
\* found 9
C5_Witness ==
    /\ d_calls = 2
    /\ \E i \in 1..Len(d_log) : d_log[i].snap_len = 10

\* C6: an event whose pre-insert snapshot had fewer than 20 samples has
\* iqr_flag = false.
C6_NoIqrBelowTwenty ==
    [][\A i \in 1..Len(found') :
          Len(windows[<<found'[i].sensor_id, found'[i].field>>]) < 20
              => ~found'[i].iqr_flag]_vars

\* a z-score event on a 19-sample snapshot, then an IQR event on the 20-sample one
C6_Witness ==
    /\ Len(d_log) >= 1 /\ d_log[1].snap_len = 19
    /\ \E i \in 1..Len(d_history) : d_history[i].iqr_flag

\* the readings with the missing and non-finite fields removed
C8_Strip(readings) ==
    SelectSeq(readings, LAMBDA p : p[2] \notin {NoneVal, NaN, PosInf, NegInf})

\* C8: ingest of a readings map with missing (None) or non-finite (NaN, +Inf,
\* -Inf) fields returns the same events and leaves the same state as ingest of
\* the map with those fields removed.
C8_BadFieldsSkipped ==
    [][d_calls' # d_calls =>
          LET a == d_args'
              r == IngestResult([DetState EXCEPT !.clock = clock + a.delta],
                                a.sensor_id, C8_Strip(a.readings), a.drift)
          IN  /\ found' = r.found
              /\ windows' = r.D.windows
              /\ last_alert' = r.D.last_alert
              /\ d_history' = r.D.history
              /\ clock' = r.D.clock]_vars

\* a call whose readings held a non-finite field and a finite one returned an
\* event for the finite one
C8_Witness ==
    /\ ~d_args.none
    /\ Len(d_args.readings) = 2
    /\ d_args.readings[1][2] = NaN
    /\ d_args.readings[2][2].k = "num"
    /\ Len(found) = 1

(***************************************************************************)
(* alert_engine.py.  Reading values and rule bounds are in hundredths of   *)
(* the field's unit (carbon_score's bounds are 0.7 .. 0.95).               *)
(***************************************************************************)
ALERT_COOLDOWN_SECS == 300
\* deque(maxlen=200)
ALERT_HISTORY_MAXLEN == 200

\* value >= bound for a float value: NaN compares false, +Inf true, -Inf false
GreaterEq(val, bound) ==
    \/ val.k = "num" /\ val.v >= bound
    \/ val.k = "inf"

\* value > bound in place of value >= bound
ClassifyThresholdStrict(rule, val) ==
    IF val.k = "num" /\ val.v > rule.critical THEN "CRITICAL"
    ELSE IF val.k = "num" /\ val.v > rule.high_warn THEN "HIGH"
    ELSE IF val.k = "num" /\ val.v > rule.medium_warn THEN "MEDIUM"
    ELSE IF val.k = "num" /\ val.v > rule.low_warn THEN "LOW"
    ELSE "None"

\* _classify_threshold; "None" is the None result
ClassifyThreshold(rule, val) ==
    IF GreaterEq(val, rule.critical) THEN "CRITICAL"
    ELSE IF GreaterEq(val, rule.high_warn) THEN "HIGH"
    ELSE IF GreaterEq(val, rule.medium_warn) THEN "MEDIUM"
    ELSE IF GreaterEq(val, rule.low_warn) THEN "LOW"
    ELSE "None"

\* a city argument: None or a string
NoneCity == [k |-> "None", v |-> ""]
City(name) == [k |-> "str", v |-> name]

\* `city or X`: None and the empty string are falsy
CityOr(city, default) ==
    IF city.k = "None" \/ city.v = "" THEN default ELSE city.v

\* key = f"{city or '_'}:{alert_type}"
AlertKey(city, alert_type) == CityOr(city, "_") \o ":" \o alert_type

\* self._cooldowns.get(key, 0.0)
CooldownsGet(cd, key) == IF key \in DOMAIN cd THEN cd[key] ELSE 0

\* a cooldown one second short
AlertInCooldownShort(cd, key, now) ==
    now - CooldownsGet(cd, key) < ALERT_COOLDOWN_SECS - 1

\* `if now - self._cooldowns.get(key, 0.0) < self.COOLDOWN_SECS: return None`
AlertInCooldown(cd, key, now) == now - CooldownsGet(cd, key) < ALERT_COOLDOWN_SECS

\* a suppressed attempt that restarts the cooldown
SuppressedRestarts(A, key, now) ==
    [A EXCEPT !.cooldowns = MapSet(A.cooldowns, key, now)]

\* the `return None` of a suppressed attempt: nothing is written
Suppressed(A, key, now) == A

NoRecord == [none |-> TRUE]

\* a key in cooldown fires again for a severity above that of its last record
MaybeFireEscalates(A, alert_type, severity, message, city, drift) ==
    LET key == AlertKey(city, alert_type)
        now == A.clock
        rank == [x \in {"LOW", "MEDIUM", "HIGH", "CRITICAL"} |->
                    CASE x = "LOW" -> 1 [] x = "MEDIUM" -> 2 [] x = "HIGH" -> 3
                      [] OTHER -> 4]
        mine == SelectSeq(A.history, LAMBDA r : r.alert_type = alert_type /\ r.city = city)
        record == [none |-> FALSE, alert_type |-> alert_type,
                   severity |-> severity, message |-> message, city |-> city,
                   timestamp |-> now + drift]
    IN  IF AlertInCooldown(A.cooldowns, key, now)
           /\ (mine = <<>> \/ rank[severity] <= rank[mine[1].severity])
        THEN [A |-> A, record |-> NoRecord]
        ELSE [A |-> [A EXCEPT
                       !.cooldowns = MapSet(A.cooldowns, key, now),
                       !.history = HistoryAppendLeft(A.history, record,
                                                     ALERT_HISTORY_MAXLEN),
                       !.total_fired = A.total_fired + 1,
                       !.clock = now + drift,
                       !.log = Append(A.log, [city |-> city,
                                              alert_type |-> alert_type,
                                              now |-> now])],
              record |-> record]

\* A: [cooldowns, history, total_fired, log, clock].  _maybe_fire: the state
\* after it and the record it returns (or NoRecord).  `now` is the first clock
\* reading; the AlertRecord's default timestamp is a second one, drift later.
MaybeFire(A, alert_type, severity, message, city, drift) ==
    LET key == AlertKey(city, alert_type)
        now == A.clock
        record == [none |-> FALSE, alert_type |-> alert_type,
                   severity |-> severity, message |-> message, city |-> city,
                   timestamp |-> now + drift]
    IN  IF AlertInCooldown(A.cooldowns, key, now)
        THEN [A |-> Suppressed(A, key, now), record |-> NoRecord]
        ELSE [A |-> [A EXCEPT
                       !.cooldowns = MapSet(A.cooldowns, key, now),
                       !.history = HistoryAppendLeft(A.history, record,
                                                     ALERT_HISTORY_MAXLEN),
                       !.total_fired = A.total_fired + 1,
                       !.clock = now + drift,
                       !.log = Append(A.log, [city |-> city,
                                              alert_type |-> alert_type,
                                              now |-> now])],
              record |-> record]

\* readings.get(field): readings is a function on the fields it holds
ReadingsGet(readings, field) ==
    IF field \in DOMAIN readings THEN readings[field] ELSE NoneVal

\* f"{value:.1f}" of a value in hundredths, as tenths (ties to even)
FormatOneDecimal(v) ==
    LET q == v \div 10
        r == v % 10
    IN  IF r > 5 \/ (r = 5 /\ q % 2 = 1) THEN q + 1 ELSE q

\* the threshold message, by its parts
ThresholdMessage(rule, val, city, sev) ==
    [kind |-> "threshold", field |-> rule.field,
     value |-> IF val.k = "num" THEN <<"num", FormatOneDecimal(val.v)>>
               ELSE <<val.k, 0>>,
     unit |-> rule.unit, city |-> CityOr(city, "unknown city"), sev |-> sev]

RECURSIVE EvaluateRules(_, _, _, _, _, _)
\* A) the loop over self._rules
EvaluateRules(A, rules, readings, city, drift, acc) ==
    IF rules = <<>> THEN [A |-> A, fired |-> acc]
    ELSE LET rule == Head(rules)
             value == ReadingsGet(readings, rule.field)
             sev == ClassifyThreshold(rule, value)
         IN  IF value.k = "None" \/ sev = "None"
             THEN EvaluateRules(A, Tail(rules), readings, city, drift, acc)
             ELSE LET r == MaybeFire(A, rule.alert_type, sev,
                                     ThresholdMessage(rule, value, city, sev),
                                     city, drift)
                  IN  EvaluateRules(r.A, Tail(rules), readings, city, drift,
                                    IF r.record.none THEN acc
                                    ELSE Append(acc, r.record))

\* the field name left in lower case
UpperSkipped(field) == field

\* str(evt.field).upper()
Upper(field) ==
    CASE field = "co2_ppm" -> "CO2_PPM"
      [] field = "aqi" -> "AQI"
      [] field = "risk_score" -> "RISK_SCORE"
      [] field = "temperature_c" -> "TEMPERATURE_C"
      [] field = "carbon_score" -> "CARBON_SCORE"
      [] OTHER -> field

RECURSIVE EvaluateAnomalies(_, _, _, _, _)
\* B) the loop over anomalies
EvaluateAnomalies(A, anomalies, city, drift, acc) ==
    IF anomalies = <<>> THEN [A |-> A, fired |-> acc]
    ELSE LET evt == Head(anomalies)
             r == MaybeFire(A, "ANOMALY_" \o Upper(evt.field), evt.severity,
                            evt.message, city, drift)
         IN  EvaluateAnomalies(r.A, Tail(anomalies), city, drift,
                               IF r.record.none THEN acc
                               ELSE Append(acc, r.record))

\* AlertEngine.evaluate(readings, city, anomalies)
EvaluateResult(A, readings, city, anomalies, drift) ==
    LET a == EvaluateRules(A, A.rules, readings, city, drift, <<>>)
    IN  EvaluateAnomalies(a.A, anomalies, city, drift, a.fired)

AlertState == [cooldowns |-> cooldowns, history |-> a_history,
               total_fired |-> total_fired, log |-> a_log, clock |-> clock,
               rules |-> a_rules]

MaxEvals == 3

\* one call of AlertEngine.evaluate, delta seconds after the last clock reading
Evaluate(readings, city, anomalies, delta, drift) ==
    /\ a_calls < MaxEvals
    /\ \E r \in {EvaluateResult([AlertState EXCEPT !.clock = clock + delta],
                                readings, city, anomalies, drift)} :
           /\ cooldowns' = r.A.cooldowns
           /\ a_history' = r.A.history
           /\ total_fired' = r.A.total_fired
           /\ a_log' = r.A.log
           /\ clock' = r.A.clock
           /\ fired' = r.fired
    /\ a_calls' = a_calls + 1
    /\ a_args' = [none |-> FALSE, readings |-> readings, city |-> city,
                  anomalies |-> anomalies]
    /\ UNCHANGED a_rules

\* an AnomalyEvent as AnomalyDetector.ingest returns them
SampleEvent ==
    Check([windows |-> [k \in DetKeys |-> Spread], last_alert |-> <<>>,
           history |-> <<>>, log |-> <<>>, clock |-> StartClock],
          "s1", "co2_ppm", 44, 0).evt

\* the calls of the environment: <<readings, anomalies>>
AlertCalls ==
    { <<[f \in {"co2_ppm"} |-> Num(60000)], <<>>>>,
      <<[f \in {"co2_ppm"} |-> Num(95000)], <<>>>>,
      <<[f \in {"humidity"} |-> Num(5000)], <<SampleEvent>>>> }
AlertCities == {NoneCity, City("delhi")}
AlertDeltas == {1, 299}

AlertInit ==
    /\ AlertIdle
    /\ clock = StartClock
    /\ DetInitWith({<<>>}, {<<>>}) /\ ThrIdle /\ SimIdle /\ ExtIdle

AlertNext ==
    \E c \in AlertCalls, city \in AlertCities, delta \in AlertDeltas,
       drift \in Drifts :
        /\ Evaluate(c[1], city, c[2], delta, drift)
        /\ UNCHANGED <<det_vars, thr_vars, sim_vars, ext_vars>>

SpecAlert == AlertInit /\ [][AlertNext]_vars

(***************************************************************************)
(* Claims about the AlertEngine cooldown                                   *)
(***************************************************************************)
\* C1: two AlertRecords fired for the same dedup key (city, alert_type) are
\* never fired less than 300 s apart, so repeated qualifying readings inside
\* the cooldown fire at most once.
C1_AlertsCooldownApart ==
    \A i, j \in 1..Len(a_log) :
        (i < j /\ a_log[i].city = a_log[j].city
               /\ a_log[i].alert_type = a_log[j].alert_type)
            => a_log[j].now - a_log[i].now >= 300

\* a key fired, the next call, a qualifying reading 299 s later, fired nothing,
\* and the key fired again on the third call
C1_Witness ==
    /\ a_calls = 3
    /\ fired # <<>>
    /\ Len(a_log) = 2
    /\ a_log[2].now - a_log[1].now > 300
    /\ a_log[1].city = a_log[2].city
    /\ a_log[1].alert_type = a_log[2].alert_type

\* the alert type a call of the environment attempts
C3_TypeOf(c) == IF c[2] = <<>> THEN "CO2_HIGH" ELSE "ANOMALY_CO2_PPM"

\* the clock readings at which (city, alert_type) has fired
C3_FireTimes(city, alert_type) ==
    {a_log[i].now : i \in {j \in 1..Len(a_log) :
                              a_log[j].city = city /\ a_log[j].alert_type = alert_type}}

\* C3: if the last alert of a key fired at time t, a qualifying reading for the
\* same key evaluated at t' with t' - t >= 300 fires a new AlertRecord, however
\* many suppressed attempts were made in between.  Stated of the next evaluate
\* call in every reachable state.
C3_FiresAfterCooldown ==
    \A c \in AlertCalls, city \in AlertCities, delta \in AlertDeltas \cup {0} :
        LET times == C3_FireTimes(city, C3_TypeOf(c))
            now == clock + delta
            r == EvaluateResult([AlertState EXCEPT !.clock = now],
                                c[1], city, c[2], 0)
        IN  (times # {} /\ \A t \in times : now - t >= 300)
                => \E i \in 1..Len(r.fired) :
                       /\ r.fired[i].city = city
                       /\ r.fired[i].alert_type = C3_TypeOf(c)
                       /\ r.A.cooldowns[AlertKey(city, C3_TypeOf(c))] = now

\* a key fired, an attempt on it was suppressed, and it fired again exactly
\* 300 s after the first fire
C3_Witness ==
    /\ a_calls = 3
    /\ fired # <<>>
    /\ Len(a_log) = 2
    /\ a_log[1].city = a_log[2].city
    /\ a_log[1].alert_type = a_log[2].alert_type
    /\ a_log[2].now - a_log[1].now = 300

(***************************************************************************)
(* _classify_threshold as a function of its arguments                      *)
(***************************************************************************)
MaxBound == 5

\* the rules with strictly increasing bounds in 1..MaxBound, and the defaults
SmallRules ==
    {ThresholdRule("x", b[1], b[2], b[3], b[4], "X_HIGH", "") :
        b \in {q \in (1..MaxBound) \X (1..MaxBound) \X (1..MaxBound) \X (1..MaxBound) :
                 q[1] < q[2] /\ q[2] < q[3] /\ q[3] < q[4]}}
ThrRules == SmallRules \cup {DEFAULT_RULES[i] : i \in 1..Len(DEFAULT_RULES)}

\* each bound of the rule, and the values just below and above it
ThrValues(rule) ==
    UNION {{b - 1, b, b + 1} :
             b \in {rule.low_warn, rule.medium_warn, rule.high_warn, rule.critical}}

ThrInit ==
    /\ t_rule \in ThrRules
    /\ t_value \in ThrValues(t_rule)
    /\ t_out = "pending"
    /\ clock = StartClock
    /\ DetInitWith({<<>>}, {<<>>}) /\ AlertIdle /\ SimIdle /\ ExtIdle

\* the call _classify_threshold(t_rule, t_value)
Classify ==
    /\ t_out = "pending"
    /\ t_out' = ClassifyThreshold(t_rule, Num(t_value))
    /\ UNCHANGED <<t_rule, t_value, det_vars, alert_vars, sim_vars, ext_vars, clock>>

ThrNext == Classify

SpecThreshold == ThrInit /\ [][ThrNext]_vars

\* the bound of each severity
C7_Bound(rule, sev) ==
    CASE sev = "LOW" -> rule.low_warn
      [] sev = "MEDIUM" -> rule.medium_warn
      [] sev = "HIGH" -> rule.high_warn
      [] sev = "CRITICAL" -> rule.critical

C7_Rank(sev) ==
    CASE sev = "LOW" -> 1 [] sev = "MEDIUM" -> 2 [] sev = "HIGH" -> 3
      [] sev = "CRITICAL" -> 4

Micro == 1000 * 1000

\* emission shares and the ventilation cap, in percent
TRAFFIC_CO2_SHARE == 27
INDUSTRY_CO2_SHARE == 33
MAX_VENTILATION_DILUTION == 30
\* risk weights, in percent
WEIGHT_CO2 == 55
WEIGHT_AQI == 25
WEIGHT_OTHER == 20
BASE_CO2 == 400
MAX_CO2 == 1000
BASE_AQI == 50
MAX_AQI == 300
DEFAULT_CO2 == 420
DEFAULT_AQI == 85
DEFAULT_RISK == 45
DEFAULT_TEMP == 28
\* AQI co-reduction coefficients, in percent
TRAFFIC_AQI_COEFF == 35
INDUSTRY_AQI_COEFF == 40
VENTIL_AQI_COEFF == 20
\* the 300.0 of max(300.0, ...) and the 10.0 of max(10.0, ...)
CO2_FLOOR == 300
AQI_FLOOR == 10
\* steepness of each lever, in tenths: 1.6, 1.2, 1.8
STEEPNESS_TRAFFIC == 16
STEEPNESS_VENTILATION == 12
STEEPNESS_INDUSTRY == 18

Max(a, b) == IF a >= b THEN a ELSE b
Min(a, b) == IF a <= b THEN a ELSE b

\* x / unit rounded to the nearest whole, ties to even
RoundDiv(x, unit) ==
    LET q == x \div unit
        r == x % unit
    IN  IF 2 * r > unit \/ (2 * r = unit /\ q % 2 = 1) THEN q + 1 ELSE q

\* math.exp(-x) in millionths, x in thousandths, at the points the model uses
ExpNeg(x) ==
    CASE x = 0 -> 1000000
      [] x = 600 -> 548812
      [] x = 800 -> 449329
      [] x = 900 -> 406570
      [] x = 1200 -> 301194
      [] x = 1600 -> 201897
      [] x = 1800 -> 165299

\* no saturation: the raw fraction
DiminishingLinear(pct, steepness) ==
    IF pct <= 0 THEN 0 ELSE pct * 10000

\* _diminishing(pct, steepness): pct in hundredths, steepness in tenths,
\* result in millionths
Diminishing(pct, steepness) ==
    IF pct <= 0 THEN 0 ELSE Micro - ExpNeg(steepness * pct)

\* truthiness of an Optional[float]: None and 0.0 are falsy
Truthy(val) == val.k # "None" /\ val.v # 0

\* `override or live or default`
Resolve(override, live, default) ==
    IF Truthy(override) THEN override.v
    ELSE IF Truthy(live) THEN live.v
    ELSE default

\* a lever that is float('nan'), as a token: every comparison with NaN is
\* false, so `nan > 0` is false like `NanPct > 0`; it is never computed with
NanPct == 0 - Micro

\* max(0.0, min(100.0, pct)), the division by 100 left to Diminishing.
\* min(100.0, nan) keeps 100.0 because `nan < 100.0` is false.
ClipPct(pct) == IF pct = NanPct THEN 100 ELSE Max(0, Min(100, pct))

\* a floor at BASE_CO2 in place of 300
Co2FloorAtBase(x) == Max(BASE_CO2 * Micro, x)

\* no floor
Co2FloorMissing(x) == x

\* max(300.0, x)
Co2Floor(x) == Max(CO2_FLOOR * Micro, x)

\* max(0.0, min(1.0, x)) in millionths
Clip01(x) == Max(0, Min(Micro, x))

\* the bounds 30, 55 and 75 taken into the lower class
ClassifyAlertExclusive(risk) ==
    IF risk <= 3000 THEN "SAFE"
    ELSE IF risk <= 5500 THEN "MODERATE"
    ELSE IF risk <= 7500 THEN "HIGH"
    ELSE "CRITICAL"

\* _classify_alert, risk in hundredths
ClassifyAlert(risk) ==
    IF risk < 3000 THEN "SAFE"
    ELSE IF risk < 5500 THEN "MODERATE"
    ELSE IF risk < 7500 THEN "HIGH"
    ELSE "CRITICAL"

\* steps 1 to 7 of simulate: every intermediate value.  a is the record of the
\* call's arguments: inp (the SimulationInput) and live_co2 .. live_temp.
SimTrace(a) ==
    LET base_co2 == Resolve(a.inp.baseline_co2, a.live_co2, DEFAULT_CO2)
        base_aqi == Resolve(a.inp.baseline_aqi, a.live_aqi, DEFAULT_AQI)
        base_risk == Resolve(a.inp.baseline_risk, a.live_risk, DEFAULT_RISK)
        base_temp == Resolve(a.inp.baseline_temp, a.live_temp, DEFAULT_TEMP)
        eff_t == Diminishing(ClipPct(a.inp.traffic_reduction_pct), STEEPNESS_TRAFFIC)
        eff_v == Diminishing(ClipPct(a.inp.ventilation_increase_pct),
                             STEEPNESS_VENTILATION)
        eff_i == Diminishing(ClipPct(a.inp.industry_reduction_pct),
                             STEEPNESS_INDUSTRY)
        traffic_co2_saved == base_co2 * ((TRAFFIC_CO2_SHARE * eff_t) \div 100)
        industry_co2_saved == base_co2 * ((INDUSTRY_CO2_SHARE * eff_i) \div 100)
        ventil_diluted ==
            base_co2 * Min(eff_v, (MAX_VENTILATION_DILUTION * Micro) \div 100)
        total_co2_reduction ==
            traffic_co2_saved + industry_co2_saved + ventil_diluted
        new_co2 == Co2Floor(base_co2 * Micro - total_co2_reduction)
        aqi_reduction ==
            base_aqi * ((TRAFFIC_AQI_COEFF * eff_t + INDUSTRY_AQI_COEFF * eff_i
                         + VENTIL_AQI_COEFF * eff_v) \div 100)
        new_aqi == Max(AQI_FLOOR * Micro, base_aqi * Micro - aqi_reduction)
        n_co2 == Clip01((new_co2 - BASE_CO2 * Micro) \div (MAX_CO2 - BASE_CO2))
        n_aqi == Clip01((new_aqi - BASE_AQI * Micro) \div (MAX_AQI - BASE_AQI))
        n_temp == Clip01(((base_temp - 25) * Micro) \div 20)
        raw_risk == n_co2 * WEIGHT_CO2 + n_aqi * WEIGHT_AQI + n_temp * WEIGHT_OTHER
        new_risk == RoundDiv(Max(0, Min(100 * Micro, raw_risk)), 10000)
    IN  [base_co2 |-> base_co2, base_aqi |-> base_aqi, base_risk |-> base_risk,
         base_temp |-> base_temp, eff_t |-> eff_t, eff_v |-> eff_v,
         eff_i |-> eff_i, traffic_co2_saved |-> traffic_co2_saved,
         industry_co2_saved |-> industry_co2_saved,
         ventil_diluted |-> ventil_diluted,
         total_co2_reduction |-> total_co2_reduction, new_co2 |-> new_co2,
         new_aqi |-> new_aqi, n_temp |-> n_temp, new_risk |-> new_risk,
         alert |-> ClassifyAlert(new_risk),
         co2_delta_pct |-> (total_co2_reduction \div base_co2) * 100,
         risk_delta |-> base_risk * 100 - new_risk]

\* _build_summary, by the parts that determine the text; numbers as the
\* one-decimal texts they are formatted to (tenths)
BuildSummary(inp, t) ==
    [headline |-> IF t.co2_delta_pct >= 15 * Micro THEN "significant"
                  ELSE IF t.co2_delta_pct >= 5 * Micro THEN "meaningful"
                  ELSE IF t.co2_delta_pct > 0 THEN "marginal"
                  ELSE "none",
     pct |-> IF t.co2_delta_pct > 0 THEN RoundDiv(t.co2_delta_pct, 100000) ELSE 0,
     breakdown |->
         (IF inp.traffic_reduction_pct > 0
          THEN <<<<"traffic", RoundDiv(t.traffic_co2_saved, 100000)>>>> ELSE <<>>)
         \o (IF inp.industry_reduction_pct > 0
             THEN <<<<"industry", RoundDiv(t.industry_co2_saved, 100000)>>>>
             ELSE <<>>)
         \o (IF inp.ventilation_increase_pct > 0
             THEN <<<<"ventilation", RoundDiv(t.ventil_diluted, 100000)>>>>
             ELSE <<>>),
     co2 |-> <<t.base_co2 * 10, RoundDiv(t.new_co2, 100000),
               RoundDiv(t.base_co2 * Micro - t.new_co2, 100000)>>,
     direction |-> IF t.risk_delta > 0 THEN "improved" ELSE "unchanged",
     risk |-> <<t.base_risk * 10, RoundDiv(t.new_risk, 10),
                RoundDiv(IF t.risk_delta >= 0 THEN t.risk_delta
                         ELSE 0 - t.risk_delta, 10)>>,
     alert |-> t.alert]

\* a new risk that is never reported above the baseline risk
SimulateResultRiskAnchored(a, now) ==
    LET t == SimTrace(a)
        anchored == Min(t.new_risk, t.base_risk * 100)
        u == [t EXCEPT !.new_risk = anchored, !.alert = ClassifyAlert(anchored),
                       !.risk_delta = t.base_risk * 100 - anchored]
    IN  [none |-> FALSE,
         new_predicted_co2 |-> RoundDiv(u.new_co2, 10000),
         new_risk_score |-> u.new_risk,
         alert_level |-> u.alert,
         impact_summary |-> BuildSummary(a.inp, u),
         co2_reduction_ppm |-> RoundDiv(u.total_co2_reduction, 10000),
         co2_reduction_pct |-> RoundDiv(u.co2_delta_pct, 100000),
         risk_reduction |-> u.risk_delta,
         traffic_co2_saved |-> RoundDiv(u.traffic_co2_saved, 10000),
         industry_co2_saved |-> RoundDiv(u.industry_co2_saved, 10000),
         ventilation_co2_diluted |-> RoundDiv(u.ventil_diluted, 10000),
         baseline_co2 |-> u.base_co2 * 100,
         baseline_risk |-> u.base_risk * 100,
         timestamp |-> now]

\* SimulationEngine.simulate: the SimulationResult
SimulateResult(a, now) ==
    LET t == SimTrace(a)
    IN  [none |-> FALSE,
         new_predicted_co2 |-> RoundDiv(t.new_co2, 10000),
         new_risk_score |-> t.new_risk,
         alert_level |-> t.alert,
         impact_summary |-> BuildSummary(a.inp, t),
         co2_reduction_ppm |-> RoundDiv(t.total_co2_reduction, 10000),
         co2_reduction_pct |-> RoundDiv(t.co2_delta_pct, 100000),
         risk_reduction |-> t.risk_delta,
         traffic_co2_saved |-> RoundDiv(t.traffic_co2_saved, 10000),
         industry_co2_saved |-> RoundDiv(t.industry_co2_saved, 10000),
         ventilation_co2_diluted |-> RoundDiv(t.ventil_diluted, 10000),
         baseline_co2 |-> t.base_co2 * 100,
         baseline_risk |-> t.base_risk * 100,
         timestamp |-> now]

SimulationInput(t, v, i, co2, aqi, risk, temp) ==
    [traffic_reduction_pct |-> t, ventilation_increase_pct |-> v,
     industry_reduction_pct |-> i, baseline_co2 |-> co2, baseline_aqi |-> aqi,
     baseline_risk |-> risk, baseline_temp |-> temp]

\* the arguments of the simulate calls: overrides as the route admits them
\* (baseline_co2 > 0, 0 <= baseline_risk <= 100), live values as the database
\* holds them
LeverValues == {0, 50, 100}
SimInputs ==
    {SimulationInput(t, v, i, co2, aqi, risk, NoneVal) :
        t \in LeverValues, v \in LeverValues, i \in LeverValues,
        co2 \in {NoneVal, Num(250), Num(300), Num(350)},
        aqi \in {NoneVal, Num(100)},
        risk \in {NoneVal, Num(0), Num(70)}}
SimCalls ==
    {[none |-> FALSE, inp |-> inp, live_co2 |-> lc, live_aqi |-> la,
      live_risk |-> lr, live_temp |-> lt] :
        inp \in SimInputs, lc \in {NoneVal, Num(500)},
        la \in {NoneVal, Num(0), Num(120)}, lr \in {NoneVal, Num(60)},
        lt \in {NoneVal, Num(0), Num(35)}}

SimInit ==
    /\ sim_in \in SimCalls
    /\ sim_out = NoResult
    /\ clock = StartClock
    /\ DetInitWith({<<>>}, {<<>>}) /\ AlertIdle /\ ThrIdle /\ ExtIdle

\* the call simulate(sim_in.inp, sim_in.live_co2, ...)
Simulate ==
    /\ sim_out = NoResult
    /\ sim_out' = SimulateResult(sim_in, clock)
    /\ UNCHANGED <<sim_in, det_vars, alert_vars, thr_vars, ext_vars, clock>>

SimNext == Simulate

SpecSim == SimInit /\ [][SimNext]_vars

(***************************************************************************)
(* Claims about the simulation engine.                                     *)
(***************************************************************************)
C9_LeversZero ==
    /\ sim_in.inp.traffic_reduction_pct = 0
    /\ sim_in.inp.ventilation_increase_pct = 0
    /\ sim_in.inp.industry_reduction_pct = 0

\* C9 as stated: with all three levers at 0, simulate returns, for every
\* resolved baseline, co2_reduction_pct == 0 and new_predicted_co2 equal to
\* baseline_co2.  Refuted by a baseline below the 300 ppm floor.
C9_ZeroLeversKeepBaseline ==
    (sim_out # NoResult /\ C9_LeversZero) =>
        /\ sim_out.co2_reduction_pct = 0
        /\ sim_out.new_predicted_co2 = sim_out.baseline_co2

\* C9 amended: with all three levers at 0 and a resolved CO2 baseline of at
\* least 300 ppm, simulate returns co2_reduction_pct == 0 and
\* new_predicted_co2 equal to baseline_co2; whatever the baseline,
\* co2_reduction_pct == 0 and new_predicted_co2 == max(300, baseline_co2).
C9_ZeroLeversKeepBaselineAboveFloor ==
    (sim_out # NoResult /\ C9_LeversZero) =>
        /\ sim_out.co2_reduction_pct = 0
        /\ sim_out.co2_reduction_ppm = 0
        /\ sim_out.baseline_co2 >= CO2_FLOOR * 100 =>
               sim_out.new_predicted_co2 = sim_out.baseline_co2
        /\ sim_out.new_predicted_co2 = Max(CO2_FLOOR * 100, sim_out.baseline_co2)

\* a zero-lever run on a 350 ppm baseline, between the floor and BASE_CO2,
\* returned 350 ppm
C9_Witness ==
    /\ sim_out # NoResult
    /\ C9_LeversZero
    /\ sim_out.baseline_co2 = 35000
    /\ sim_out.new_predicted_co2 = 35000
    /\ sim_out.co2_reduction_pct = 0

\* the resolution the documentation describes: an override that is not None,
\* else a live value that is not None, else the default
C10_ByPriority(override, live, default) ==
    IF override.k # "None" THEN override.v
    ELSE IF live.k # "None" THEN live.v
    ELSE default

\* C10: for each of CO2, AQI, risk and temperature the baseline used is the
\* override whenever one is supplied (non-null), otherwise the live value
\* whenever one is supplied, otherwise the default (420, 85, 45, 28).
C10_BaselineByPriority ==
    sim_out # NoResult =>
        /\ sim_out.baseline_co2 =
               100 * C10_ByPriority(sim_in.inp.baseline_co2, sim_in.live_co2, 420)
        /\ sim_out.baseline_risk =
               100 * C10_ByPriority(sim_in.inp.baseline_risk, sim_in.live_risk, 45)
        /\ SimTrace(sim_in).base_aqi =
               C10_ByPriority(sim_in.inp.baseline_aqi, sim_in.live_aqi, 85)
        /\ SimTrace(sim_in).base_temp =
               C10_ByPriority(sim_in.inp.baseline_temp, sim_in.live_temp, 28)

\* the golden run: resolved CO2 baseline 420, traffic lever 100, the others 0
C11_GoldenRun ==
    /\ sim_out # NoResult
    /\ sim_out.baseline_co2 = 42000
    /\ sim_in.inp.traffic_reduction_pct = 100
    /\ sim_in.inp.ventilation_increase_pct = 0
    /\ sim_in.inp.industry_reduction_pct = 0

\* C11 as stated: on the golden run traffic_co2_saved is 90.49 and
\* new_predicted_co2 is 329.51, to 2 decimals.
C11_GoldenValueAsStated ==
    C11_GoldenRun =>
        /\ sim_out.traffic_co2_saved = 9049
        /\ sim_out.new_predicted_co2 = 32951

\* C11 amended: on the golden run eff_t = 1 - e^(-1.6) = 0.79810,
\* traffic_co2_saved = 420 * 0.27 * 0.79810 = 90.50 and new_predicted_co2 =
\* 329.50, to 2 decimals; the traffic saving is the whole reduction.
C11_GoldenValue ==
    C11_GoldenRun =>
        /\ SimTrace(sim_in).eff_t \div 10 = 79810
        /\ sim_out.traffic_co2_saved = 9050
        /\ sim_out.co2_reduction_ppm = 9050
        /\ sim_out.new_predicted_co2 = 32950

\* the golden run has been simulated, from the default baseline
C11_Witness ==
    /\ C11_GoldenRun
    /\ sim_in.inp.baseline_co2 = NoneVal
    /\ sim_in.live_co2 = NoneVal
    /\ sim_out.traffic_co2_saved = 9050

(***************************************************************************)
(* AlertEngine.__init__ with a rules argument                              *)
(***************************************************************************)
\* `rules or DEFAULT_RULES`: None and the empty list are falsy
RulesOr(arg, default) == IF arg.k = "None" \/ arg.v = <<>> THEN default ELSE arg.v

\* the rules argument: None, the empty list, or one custom co2_ppm rule with
\* bounds (low_warn, medium_warn, high_warn, critical)
RuleArgs ==
    {[k |-> "None", v |-> <<>>], [k |-> "list", v |-> <<>>]}
    \cup {[k |-> "list",
           v |-> <<ThresholdRule("co2_ppm", b[1], b[2], b[3], b[4],
                                 "CO2_HIGH", "ppm")>>] :
            b \in {<<1, 2, 3, 4>>, <<4, 3, 2, 1>>, <<1, 1, 2, 3>>,
                   <<2, 2, 2, 2>>, <<1, 3, 2, 4>>}}

\* AlertEngine(rules): lines 87-90
AlertEngineInit(arg) ==
    /\ a_rules = RulesOr(arg, DEFAULT_RULES)
    /\ a_args = NoResult
    /\ cooldowns = <<>>
    /\ a_history = <<>>
    /\ total_fired = 0
    /\ fired = <<>>
    /\ a_log = <<>>
    /\ a_calls = 0

RulesInit ==
    /\ \E arg \in RuleArgs : AlertEngineInit(arg)
    /\ clock = StartClock
    /\ DetInitWith({<<>>}, {<<>>}) /\ ThrIdle /\ SimIdle /\ ExtIdle

RulesNext ==
    \E r \in {[f \in {"co2_ppm"} |-> Num(x)] : x \in {1, 2, 4}} :
        /\ Evaluate(r, NoneCity, <<>>, ALERT_COOLDOWN_SECS, 0)
        /\ UNCHANGED <<det_vars, thr_vars, sim_vars, ext_vars>>

SpecRules == RulesInit /\ [][RulesNext]_vars

C12_StrictlyIncreasing(rule) ==
    /\ rule.low_warn < rule.medium_warn
    /\ rule.medium_warn < rule.high_warn
    /\ rule.high_warn < rule.critical

\* C12: the rule table is validated when it is loaded, so no engine ever
\* evaluates a rule whose four bounds are not strictly increasing.
C12_RuleTableValidated ==
    a_calls > 0 => \A i \in 1..Len(a_rules) : C12_StrictlyIncreasing(a_rules[i])

(***************************************************************************)
(* Two threads inside AlertEngine._maybe_fire, interleaved statement by    *)
(* statement.  The source takes no lock: each statement is a step.         *)
(***************************************************************************)
RaceThreads == {1, 2}

\* each thread enters _maybe_fire("CO2_HIGH", "LOW", message, city)
RaceInit ==
    /\ AlertIdle
    /\ clock = StartClock
    /\ \E c \in [RaceThreads -> AlertCities] :
         threads = [t \in RaceThreads |->
                      [pc |-> "now", city |-> c[t], now |-> 0, record |-> NoRecord]]
    /\ DetInitWith({<<>>}, {<<>>}) /\ ThrIdle /\ SimIdle
    /\ ea = NoResult /\ db = NoResult /\ q_out = NoResult

\* one statement of thread t; tick is the time that passed before a clock reading
RaceStep(t, tick) ==
    LET me == threads[t]
        key == AlertKey(me.city, "CO2_HIGH")
    IN  /\ \/ \* 165-166: key = ...; now = time.time()
              /\ me.pc = "now"
              /\ clock' = clock + tick
              /\ threads' = [threads EXCEPT ![t].pc = "test", ![t].now = clock + tick]
              /\ UNCHANGED <<cooldowns, a_history, total_fired, a_log>>
           \/ \* 167-168: the cooldown test
              /\ me.pc = "test"
              /\ threads' = [threads EXCEPT ![t].pc =
                               IF AlertInCooldown(cooldowns, key, me.now)
                               THEN "done" ELSE "set"]
              /\ UNCHANGED <<cooldowns, a_history, total_fired, a_log, clock>>
           \/ \* 170: self._cooldowns[key] = now
              /\ me.pc = "set"
              /\ cooldowns' = MapSet(cooldowns, key, me.now)
              /\ a_log' = Append(a_log, [city |-> me.city, alert_type |-> "CO2_HIGH",
                                         now |-> me.now])
              /\ threads' = [threads EXCEPT ![t].pc = "record"]
              /\ UNCHANGED <<a_history, total_fired, clock>>
           \/ \* 171-176: record = AlertRecord(...), timestamp = time.time()
              /\ me.pc = "record"
              /\ clock' = clock + tick
              /\ threads' = [threads EXCEPT ![t].pc = "append", ![t].record =
                               [none |-> FALSE, alert_type |-> "CO2_HIGH",
                                severity |-> "LOW", message |-> "m",
                                city |-> me.city, timestamp |-> clock + tick]]
              /\ UNCHANGED <<cooldowns, a_history, total_fired, a_log>>
           \/ \* 177: self._history.appendleft(record)
              /\ me.pc = "append"
              /\ a_history' = HistoryAppendLeft(a_history, me.record,
                                                ALERT_HISTORY_MAXLEN)
              /\ threads' = [threads EXCEPT ![t].pc = "count"]
              /\ UNCHANGED <<cooldowns, total_fired, a_log, clock>>
           \/ \* 178: self._total_fired += 1
              /\ me.pc = "count"
              /\ total_fired' = total_fired + 1
              /\ threads' = [threads EXCEPT ![t].pc = "done"]
              /\ UNCHANGED <<cooldowns, a_history, a_log, clock>>
        /\ UNCHANGED <<fired, a_calls, a_rules, a_args, ea, db, q_out,
                       det_vars, thr_vars, sim_vars>>

RaceNext == \E t \in RaceThreads, tick \in Drifts : RaceStep(t, tick)

SpecRace == RaceInit /\ [][RaceNext]_vars

\* C13: the shared structures are lock-protected: two concurrent evaluations
\* racing on one dedup key inside the cooldown never both fire, and once both
\* have returned total_fired equals the number of records fired.
C13_RaceFiresOnce ==
    /\ \A i, j \in 1..Len(a_log) :
         (i < j /\ AlertKey(a_log[i].city, a_log[i].alert_type)
                     = AlertKey(a_log[j].city, a_log[j].alert_type))
             => a_log[j].now - a_log[i].now >= ALERT_COOLDOWN_SECS
    /\ (\A t \in RaceThreads : threads[t].pc = "done")
           => total_fired = Len(a_log) /\ Len(a_history) = Len(a_log)

(***************************************************************************)
(* AlertEngine.evaluate_async and _persist.  The coroutine runs without    *)
(* interruption up to `await session.commit()`, where it waits for the     *)
(* session; add and commit may raise.                                      *)
(***************************************************************************)
\* an exception raised inside _persist leaves the coroutine
PersistPropagates == FALSE

\* `except Exception as exc: logger.error(...)`: the exception is swallowed
PersistCatches == TRUE

AsyncInit ==
    /\ AlertIdle
    /\ clock = StartClock
    /\ DetInitWith({<<>>}, {<<>>}) /\ ThrIdle /\ SimIdle /\ ExtIdle

\* 145-147: alerts = self.evaluate(...); the test `alerts and db_session is not
\* None`.  session: whether a db_session was supplied.
AsyncCall(readings, city, anomalies, session, delta) ==
    /\ IF ea.none THEN TRUE ELSE ea.pc = "returned"
    /\ Evaluate(readings, city, anomalies, delta, 0)
    /\ ea' = [none |-> FALSE, session |-> session, alerts |-> fired',
              pc |-> IF fired' # <<>> /\ session THEN "persist" ELSE "return",
              ret |-> <<>>, raised |-> FALSE,
              after |-> <<cooldowns', a_history', total_fired'>>]
    /\ db' = NoResult
    /\ UNCHANGED <<threads, q_out, det_vars, thr_vars, sim_vars>>

\* the outcome of an exception raised in the try block of _persist
PersistRaised(e) ==
    IF PersistCatches THEN [e EXCEPT !.pc = "return"]
    ELSE [e EXCEPT !.pc = "returned", !.raised = TRUE]

\* the steps of the call after evaluate
AsyncStep ==
    /\ ~ea.none
    /\ \/ \* 205-215: the import and the session.add loop; add number k + 1 (or,
          \* for k = 0, the import) raises, or all Len(alerts) adds succeed
          /\ ea.pc = "persist"
          /\ \E k \in 0..Len(ea.alerts) :
               /\ db' = [none |-> FALSE, added |-> SubSeq(ea.alerts, 1, k),
                         committed |-> <<>>,
                         commit |-> IF k = Len(ea.alerts) THEN "pending"
                                    ELSE "not started"]
               /\ ea' = IF k = Len(ea.alerts) THEN [ea EXCEPT !.pc = "commit"]
                        ELSE PersistRaised(ea)
       \/ \* 216: await session.commit() completes
          /\ ea.pc = "commit"
          /\ db' = [db EXCEPT !.commit = "done", !.committed = db.added]
          /\ ea' = [ea EXCEPT !.pc = "return"]
       \/ \* 216: await session.commit() raises
          /\ ea.pc = "commit"
          /\ db' = [db EXCEPT !.commit = "failed"]
          /\ ea' = PersistRaised(ea)
       \/ \* 149: return alerts
          /\ ea.pc = "return"
          /\ ea' = [ea EXCEPT !.pc = "returned", !.ret = ea.alerts]
          /\ UNCHANGED db
    /\ UNCHANGED <<threads, q_out, alert_vars, det_vars, thr_vars, sim_vars, clock>>

AsyncNext ==
    \/ \E c \in AlertCalls, session \in BOOLEAN, delta \in AlertDeltas :
         AsyncCall(c[1], NoneCity, c[2], session, delta)
    \/ AsyncStep

SpecAsync == AsyncInit /\ [][AsyncNext]_vars

\* C14: evaluate_async hands the alerts to the persistence collaborator and
\* returns without waiting for the commit: the call is never found waiting on
\* a commit that has not completed.
C14_NeverWaitsForCommit ==
    ~(~ea.none /\ ea.pc = "commit" /\ db.commit = "pending")

\* C15: when the persistence collaborator fails no exception reaches the
\* caller, the call returns exactly the alerts evaluate fired, cooldowns,
\* history and total_fired keep them, and persistence is attempted only when
\* an alert fired and a session was supplied.
C15_PersistFailureContained ==
    ~ea.none =>
        /\ ~ea.raised
        /\ ea.pc = "returned" =>
               /\ ea.ret = fired
               /\ <<cooldowns, a_history, total_fired>> = ea.after
               /\ \A i \in 1..Len(fired) : a_history[Len(fired) + 1 - i] = fired[i]
        /\ ~db.none => (fired # <<>> /\ ea.session)

\* a call whose commit raised has returned its alert
C15_Witness ==
    /\ ~ea.none /\ ea.pc = "returned" /\ ~db.none
    /\ db.commit = "failed"
    /\ ea.ret # <<>> /\ ea.ret = fired
    /\ total_fired > 0

(***************************************************************************)
(* AlertEngine with a history at its capacity.  The engine has fired n     *)
(* CO2_HIGH alerts for no city, one every 300 s, before the calls of the   *)
(* model begin.                                                            *)
(***************************************************************************)
\* record number j of the n earlier fires
PriorRecord(j) ==
    [none |-> FALSE, alert_type |-> "CO2_HIGH", severity |-> "LOW",
     message |-> ThresholdMessage(DEFAULT_RULES[1], Num(60000), NoneCity, "LOW"),
     city |-> NoneCity, timestamp |-> StartClock + ALERT_COOLDOWN_SECS * j]

\* the engine after n evaluate({"co2_ppm": 600.0}) calls 300 s apart
FullInitWith(n) ==
    /\ a_rules = DEFAULT_RULES
    /\ a_args = NoResult
    /\ clock = StartClock + ALERT_COOLDOWN_SECS * n
    /\ cooldowns = MapSet(<<>>, AlertKey(NoneCity, "CO2_HIGH"), clock)
    /\ a_history = [i \in 1..Min(n, ALERT_HISTORY_MAXLEN) |-> PriorRecord(n + 1 - i)]
    /\ total_fired = n
    /\ a_log = [j \in 1..n |-> [city |-> NoneCity, alert_type |-> "CO2_HIGH",
                                now |-> StartClock + ALERT_COOLDOWN_SECS * j]]
    /\ fired = <<PriorRecord(n)>>
    /\ a_calls = 0

\* calls firing no, one or two alerts
FullCalls ==
    AlertCalls \cup {<<[f \in {"co2_ppm"} |-> Num(95000)], <<SampleEvent>>>>}

FullInit ==
    /\ \E n \in {ALERT_HISTORY_MAXLEN - 2, ALERT_HISTORY_MAXLEN - 1,
                 ALERT_HISTORY_MAXLEN, ALERT_HISTORY_MAXLEN + 1} : FullInitWith(n)
    /\ DetInitWith({<<>>}, {<<>>}) /\ ThrIdle /\ SimIdle /\ ExtIdle

FullNext ==
    \E c \in FullCalls, city \in AlertCities, delta \in AlertDeltas :
        /\ Evaluate(c[1], city, c[2], delta, 0)
        /\ UNCHANGED <<det_vars, thr_vars, sim_vars, ext_vars>>

SpecAlertFull == FullInit /\ [][FullNext]_vars

RECURSIVE C16_Reverse(_)
C16_Reverse(l) == IF l = <<>> THEN <<>> ELSE Append(C16_Reverse(Tail(l)), Head(l))

\* C16: total_fired grows by the number of records each evaluate returns and
\* never decreases, len(history) = min(total_fired, 200), a fire on a full
\* history evicts exactly the oldest record, and the records already in the
\* history stay as they were, in their order.
C16_HistoryInvariant ==
    /\ [](Len(a_history) = Min(total_fired, 200))
    /\ [][LET all == C16_Reverse(fired') \o a_history
          IN  /\ total_fired' = total_fired + Len(fired')
              /\ total_fired' >= total_fired
              /\ Len(a_history') = Min(total_fired', 200)
              /\ a_history' = SubSeq(all, 1, Min(Len(all), 200))]_vars

\* a fire on a full history: the oldest record has been evicted
C16_Witness ==
    /\ a_calls > 0
    /\ fired # <<>>
    /\ total_fired > 200
    /\ Len(a_history) = 200
    /\ a_history[1] = fired[Len(fired)]
    /\ a_history[200].timestamp > StartClock + ALERT_COOLDOWN_SECS

(***************************************************************************)
(* get_recent of both engines.  q_out holds the result of a query until    *)
(* the next evaluate or ingest call begins.                                *)
(***************************************************************************)
\* AlertRecord.to_dict
AlertToDict(a) ==
    [alert_type |-> a.alert_type, severity |-> a.severity, message |-> a.message,
     city |-> a.city, timestamp |-> a.timestamp]

\* AnomalyEvent.to_dict; mean in thousandths (round(mean, 3)); z_score and
\* std stay the exact fractions that determine their 3-decimal roundings
EventToDict(e) ==
    [sensor_id |-> e.sensor_id, field |-> e.field, value |-> e.value,
     z_score |-> IF ZTruthy(e.z_score) THEN e.z_score ELSE ZNull,
     iqr_flag |-> e.iqr_flag, mean |-> RoundDiv(1000 * e.mean[1], e.mean[2]),
     std |-> e.std, severity |-> e.severity, timestamp |-> e.timestamp,
     message |-> e.message]

\* the slice that takes one element more than asked for
SliceWide(l, limit) == SubSeq(l, 1, Min(limit + 1, Len(l)))

\* list(history)[:limit] for limit >= 0
Slice(l, limit) == SubSeq(l, 1, Min(limit, Len(l)))

\* AlertEngine.get_recent(limit)
AlertGetRecent(limit) ==
    /\ q_out' = [none |-> FALSE, op |-> "AlertEngine.get_recent", limit |-> limit,
                 result |-> [i \in DOMAIN Slice(a_history, limit) |->
                               AlertToDict(Slice(a_history, limit)[i])]]
    /\ UNCHANGED <<threads, ea, db, alert_vars, det_vars, thr_vars, sim_vars, clock>>

\* AnomalyDetector.get_recent(limit)
DetGetRecent(limit) ==
    /\ q_out' = [none |-> FALSE, op |-> "AnomalyDetector.get_recent",
                 limit |-> limit,
                 result |-> [i \in DOMAIN Slice(d_history, limit) |->
                               EventToDict(Slice(d_history, limit)[i])]]
    /\ UNCHANGED <<threads, ea, db, alert_vars, det_vars, thr_vars, sim_vars, clock>>

RecentInit ==
    /\ \E n \in {1, ALERT_HISTORY_MAXLEN - 1} : FullInitWith(n)
    /\ DetInitWith({Heavy}, {Heavy}) /\ ThrIdle /\ SimIdle /\ ExtIdle

RecentNext ==
    LET RecentLimits == {0, 1, 2, ALERT_HISTORY_MAXLEN, ALERT_HISTORY_MAXLEN + 1} IN
    \/ \E c \in {<<[f \in {"co2_ppm"} |-> Num(95000)], <<SampleEvent>>>>,
                 <<[f \in {"humidity"} |-> Num(5000)], <<>>>>} :
         /\ Evaluate(c[1], NoneCity, c[2], ALERT_COOLDOWN_SECS, 0)
         /\ q_out' = NoResult
         /\ UNCHANGED <<threads, ea, db, det_vars, thr_vars, sim_vars>>
    \/ \E r \in {<<<<"co2_ppm", Num(44)>>, <<"aqi", Num(44)>>>>} :
         /\ Ingest("s1", r, COOLDOWN_SECS, 0)
         /\ q_out' = NoResult
         /\ UNCHANGED <<d_args, threads, ea, db, alert_vars, thr_vars, sim_vars>>
    \/ \E limit \in RecentLimits : AlertGetRecent(limit)
    \/ \E limit \in RecentLimits : DetGetRecent(limit)

SpecRecent == RecentInit /\ [][RecentNext]_vars

\* C17: get_recent(limit), limit >= 0, returns the min(limit, len(history))
\* most recently fired alerts (events), newest first, the one fired last in a
\* call before those fired earlier in it, and changes no engine state.
C17_RecentNewestFirst ==
    /\ [](~q_out.none =>
           LET n == Len(q_out.result)
           IN  IF q_out.op = "AlertEngine.get_recent"
               THEN /\ n = Min(q_out.limit, Min(total_fired, 200))
                    /\ \A i \in 1..n :
                         LET f == a_log[Len(a_log) + 1 - i]
                         IN  /\ q_out.result[i].timestamp = f.now
                             /\ q_out.result[i].alert_type = f.alert_type
                             /\ q_out.result[i].city = f.city
               ELSE /\ n = Min(q_out.limit, Len(d_log))
                    /\ \A i \in 1..n :
                         LET f == d_log[Len(d_log) + 1 - i]
                         IN  /\ q_out.result[i].timestamp = f.now
                             /\ <<q_out.result[i].sensor_id, q_out.result[i].field>>
                                  = f.key)
    /\ [][~q_out'.none => UNCHANGED <<alert_vars, det_vars, clock>>]_vars

\* get_recent(1) and get_recent(2) after a call that fired two alerts: the
\* anomaly alert, fired last, comes first
C17_Witness ==
    /\ ~q_out.none
    /\ q_out.op = "AlertEngine.get_recent"
    /\ q_out.limit \in {1, 2}
    /\ Len(fired) = 2
    /\ q_out.result[1].alert_type = "ANOMALY_CO2_PPM"
    /\ Len(a_history) > q_out.limit

(***************************************************************************)
(* The sliding windows at capacity, and get_window_stats                   *)
(***************************************************************************)
\* get_window_stats: {sensor: {field: len(window)}} over the windows that
\* exist.  A window is created by the first _check on its key and never
\* empties, so the keys of self._windows are those with a nonempty window.
WindowStats(W) ==
    [sid \in {k[1] : k \in {x \in DOMAIN W : W[x] # <<>>}} |->
       [f \in {k[2] : k \in {x \in DOMAIN W : x[1] = sid /\ W[x] # <<>>}} |->
          Len(W[<<sid, f>>])]]

\* AnomalyDetector.get_window_stats()
GetWindowStats ==
    /\ q_out' = [none |-> FALSE, op |-> "get_window_stats",
                 result |-> WindowStats(windows)]
    /\ UNCHANGED <<threads, ea, db, alert_vars, det_vars, thr_vars, sim_vars, clock>>

\* 4 ones then zeros: Q1 = Q3 = 0 from 20 samples on
Long(n) == <<1, 1, 1, 1>> \o Zeros(n - 4)

\* a detector whose co2_ppm window is empty, one short of detection, one short
\* of capacity or full, after a warm-up that raised no anomaly; the aqi
\* window does not exist yet
WinInit ==
    /\ \E w1 \in {w \in {<<>>, Prefix(Long(9), 9), Long(WINDOW_SIZE - 1),
                         Long(WINDOW_SIZE)} : Benign(w)} :
         windows = [k \in DetKeys |-> IF k[2] = "co2_ppm" THEN w1 ELSE <<>>]
    /\ last_alert = <<>> /\ d_history = <<>> /\ found = <<>> /\ d_log = <<>>
    /\ d_calls = 0 /\ d_args = NoArgs /\ received = windows /\ d_raised = FALSE
    /\ clock = StartClock /\ OthersIdle

WinNext ==
    \/ \E s \in Sensors, delta \in DetDeltas,
          r \in Dicts({Num(0), Num(5), NaN, PosInf}, {Num(5), NoneVal}) :
         /\ Ingest(s, r, delta, 0)
         /\ q_out' = NoResult
         /\ UNCHANGED <<d_args, threads, ea, db, alert_vars, thr_vars, sim_vars>>
    \/ GetWindowStats

SpecWindow == WinInit /\ [][WinNext]_vars

\* the last n elements of s
C18_LastN(s, n) == SubSeq(s, Len(s) - n + 1, Len(s))

\* C18: the window of each key holds exactly the last min(n, 60) of the n
\* finite values received for the key, in arrival order, so it never exceeds
\* 60; get_window_stats reports exactly these lengths and lists exactly the
\* keys (and sensors) that received at least one finite value.
C18_SlidingWindow ==
    /\ \A k \in DetKeys :
         /\ windows[k] = C18_LastN(received[k], Min(Len(received[k]), 60))
         /\ Len(windows[k]) <= 60
    /\ ~q_out.none =>
         /\ \A k \in DetKeys :
              IF received[k] = <<>>
              THEN k[1] \in DOMAIN q_out.result
                     => k[2] \notin DOMAIN q_out.result[k[1]]
              ELSE /\ k[1] \in DOMAIN q_out.result
                   /\ k[2] \in DOMAIN q_out.result[k[1]]
                   /\ q_out.result[k[1]][k[2]] = Min(Len(received[k]), 60)
         /\ \A sid \in DOMAIN q_out.result :
              /\ \E k \in DetKeys : k[1] = sid /\ received[k] # <<>>
              /\ \A f \in DOMAIN q_out.result[sid] : <<sid, f>> \in DetKeys

\* a full window has evicted its two oldest values, a key that was sent only
\* a missing value is not listed, and the stats report 60
C18_Witness ==
    /\ ~q_out.none
    /\ Len(received[<<"s1", "co2_ppm">>]) = 62
    /\ received[<<"s1", "aqi">>] = <<>>
    /\ q_out.result["s1"]["co2_ppm"] = 60
    /\ windows[<<"s1", "co2_ppm">>][1] = 1
    /\ windows[<<"s1", "co2_ppm">>][3] = 0

\* the positions in a list of events of those of one key
C19_EventsOf(evts, k) ==
    {i \in 1..Len(evts) : <<evts[i].sensor_id, evts[i].field>> = k}

\* C19: the decision on a value and the mean and std of its event come from
\* the window as it was before the value was appended, and after the call the
\* value is the newest element of the window whatever the outcome.
C19_SnapshotBeforeInsert ==
    [][\A k \in DetKeys :
          Len(received'[k]) > Len(received[k]) =>
              LET v == received'[k][Len(received'[k])]
                  w == windows[k]
                  n == Len(w)
                  S == C4_Sum(w, n)
                  Q == C4_SumSq(w, n)
                  evs == C19_EventsOf(found', k)
              IN  /\ windows'[k] # <<>>
                  /\ windows'[k][Len(windows'[k])] = v
                  /\ (evs # {}) <=>
                         /\ n >= 10
                         /\ C4_ZFlag(w, v) \/ C4_IqrFlag(w, v)
                         /\ ~C4_InCooldown(k, clock')
                  /\ \A i \in evs :
                         /\ found'[i].value = v
                         /\ found'[i].mean = <<S, n>>
                         /\ found'[i].std = <<n * (n * Q - S * S), n * n * (n - 1)>>]_vars

\* an event on a full window: its mean is that of the 60 values before the
\* append, and the value is now the newest of 60
C19_Witness ==
    /\ found # <<>>
    /\ found[1].value = 5
    /\ found[1].mean = <<4, 60>>
    /\ Len(windows[<<"s1", "co2_ppm">>]) = 60
    /\ windows[<<"s1", "co2_ppm">>][60] = 5
    /\ Len(received[<<"s1", "co2_ppm">>]) = 61

\* C20: an anomalous value suppressed by the cooldown produces no event and
\* leaves last_alert, for every key, as the fires of the same call left it,
\* and adds nothing to the history; a call without events changes neither,
\* and a call with events sets last_alert of exactly their keys and prepends
\* exactly them to the history.
C20_SuppressedLeavesNoTrace ==
    [][d_calls' # d_calls =>
          /\ \A k \in DetKeys :
                (/\ Len(received'[k]) > Len(received[k])
                 /\ Len(windows[k]) >= 10
                 /\ LET v == received'[k][Len(received'[k])]
                    IN  C4_ZFlag(windows[k], v) \/ C4_IqrFlag(windows[k], v)
                 /\ C4_InCooldown(k, clock'))
                    => /\ C19_EventsOf(found', k) = {}
                       /\ LastAlertGet(last_alert', k) = LastAlertGet(last_alert, k)
          /\ \A k \in DetKeys :
                IF C19_EventsOf(found', k) = {}
                THEN /\ (k \in DOMAIN last_alert') = (k \in DOMAIN last_alert)
                     /\ LastAlertGet(last_alert', k) = LastAlertGet(last_alert, k)
                ELSE last_alert'[k] = clock'
          /\ Len(d_history') = Min(Len(d_history) + Len(found'), HISTORY_MAXLEN)
          /\ \A i \in 1..Len(d_history') :
                d_history'[i] = IF i <= Len(found')
                                THEN found'[Len(found') + 1 - i]
                                ELSE d_history[i - Len(found')]]_vars

\* an anomalous value 119 s after the key fired: no event, the cooldown entry
\* and the history are those of the fire
C20_Witness ==
    /\ d_calls = 2
    /\ found = <<>>
    /\ Len(d_log) = 1
    /\ clock - d_log[1].now = 119
    /\ last_alert[d_log[1].key] = d_log[1].now
    /\ Len(d_history) = 1
    /\ LET r == received[d_log[1].key] IN r[Len(r)] = 5 /\ r[Len(r) - 1] = 5

(***************************************************************************)
(* Severity of the events: windows of mean 15 and std exactly 10, constant *)
(* windows of 10, 19 and 20 samples, and a window flagged by the IQR fence *)
(***************************************************************************)
SevInit ==
    /\ \E w1 \in {w \in {Spread, Zeros(MIN_WINDOW), Zeros(IQR_MIN_SAMPLES - 1),
                         Zeros(IQR_MIN_SAMPLES), Heavy} : Benign(w)} :
         windows = [k \in DetKeys |-> IF k[2] = "co2_ppm" THEN w1 ELSE <<>>]
    /\ last_alert = <<>> /\ d_history = <<>> /\ found = <<>> /\ d_log = <<>>
    /\ d_calls = 0 /\ d_args = NoArgs /\ received = windows /\ d_raised = FALSE
    /\ clock = StartClock /\ OthersIdle

\* one co2_ppm value per call: z = 3.0, 3.1, 4.0, 4.1, 5.0, 5.1 on the window
\* of std 10, the mean 2 of the window Heavy (outside its IQR fences), and
\* values far outside a constant window
SevNext ==
    \E s \in Sensors, v \in {0, 1, 2, 45, 46, 55, 56, 65, 66, 80} :
        /\ Ingest(s, <<<<"co2_ppm", Num(v)>>>>, COOLDOWN_SECS, 0)
        /\ UNCHANGED <<d_args, not_det_vars>>

SpecSeverity == SevInit /\ [][SevNext]_vars

\* z > c for an event's z (carried as z*z = num / den), c a whole number
C21_Above(e, c) == ~e.z_score.null /\ e.z_score.num > c * c * e.z_score.den

\* C21: an event's severity depends only on z: CRITICAL for z > 5.0, HIGH
\* for z > 4.0, MEDIUM for z > 3.0, LOW for anything else and for a null z;
\* z exactly 5.0, 4.0 or 3.0 falls in the lower class.
C21_SeverityFromZ ==
    \A i \in 1..Len(d_history) :
        LET e == d_history[i]
        IN  e.severity = IF C21_Above(e, 5) THEN "CRITICAL"
                         ELSE IF C21_Above(e, 4) THEN "HIGH"
                         ELSE IF C21_Above(e, 3) THEN "MEDIUM"
                         ELSE "LOW"

\* an event of z exactly 5.0 is HIGH, and an event flagged by the IQR fence
\* alone is LOW
C21_Witness ==
    /\ Len(d_history) = 2
    /\ \E i \in 1..2 :
         /\ d_history[i].z_score.num = 25 * d_history[i].z_score.den
         /\ d_history[i].severity = "HIGH"
    /\ \E i \in 1..2 : d_history[i].severity \in {"CRITICAL", "MEDIUM"}

\* every sample of w is the same
C22_Constant(w) == \A i \in 1..Len(w) : w[i] = w[1]

\* C22: when the pre-insert snapshot has std == 0, an emitted event has
\* z_score null, severity LOW and iqr_flag true, and a constant history of
\* 10 to 19 samples produces no event whatever the new value.
C22_ZeroStd ==
    [][\A k \in DetKeys :
          (Len(received'[k]) > Len(received[k]) /\ C22_Constant(windows[k])) =>
              /\ \A i \in C19_EventsOf(found', k) :
                    /\ found'[i].z_score = ZNull
                    /\ found'[i].severity = "LOW"
                    /\ found'[i].iqr_flag
              /\ Len(windows[k]) \in 10..19 => C19_EventsOf(found', k) = {}]_vars

\* 80 after 20 zeros, the last of them ingested on a constant window of 19:
\* one event, without z
C22_Witness ==
    /\ d_calls = 2
    /\ received[<<"s1", "co2_ppm">>] = Zeros(20) \o <<80>>
    /\ Len(d_history) = 1
    /\ found # <<>> /\ found[1].z_score.null /\ found[1].iqr_flag
    /\ found[1].severity = "LOW"

(***************************************************************************)
(* The two pathways of AlertEngine.evaluate: readings with absent fields,  *)
(* fields without a rule, values below every threshold, missing and        *)
(* non-finite values; cities None, "", "_" and "delhi"; events of two      *)
(* sensors.                                                                *)
(***************************************************************************)
PathInit ==
    /\ AlertIdle
    /\ clock = StartClock
    /\ DetInitWith({<<>>}, {<<>>}) /\ ThrIdle /\ SimIdle /\ ExtIdle

\* the calls <<readings, anomalies>>, each 299 s after the one before
PathNext ==
    LET other == [SampleEvent EXCEPT !.sensor_id = "s2", !.severity = "HIGH"]
        calls ==
          { <<[f \in {"co2_ppm"} |-> Num(60000)], <<>>>>,
            <<("co2_ppm" :> Num(95000)) @@ ("aqi" :> Num(9999))
                @@ ("humidity" :> Num(5000)), <<SampleEvent, other>>>>,
            <<("co2_ppm" :> NaN) @@ ("aqi" :> Num(30000))
                @@ ("temperature_c" :> NoneVal), <<>>>>,
            <<("co2_ppm" :> PosInf) @@ ("risk_score" :> NegInf), <<>>>>,
            <<<<>>, <<[SampleEvent EXCEPT !.field = "aqi"]>>>> }
    IN  \E c \in calls, city \in {NoneCity, City(""), City("_"), City("delhi")} :
            /\ Evaluate(c[1], city, c[2], ALERT_COOLDOWN_SECS - 1, 0)
            /\ UNCHANGED <<det_vars, thr_vars, sim_vars, ext_vars>>

SpecPathways == PathInit /\ [][PathNext]_vars

\* the severity of a reading under a rule: the highest threshold it reaches
C23_Sev(rule, val) ==
    IF val.k = "inf" THEN "CRITICAL"
    ELSE IF val.k # "num" \/ val.v < rule.low_warn THEN "None"
    ELSE IF val.v < rule.medium_warn THEN "LOW"
    ELSE IF val.v < rule.high_warn THEN "MEDIUM"
    ELSE IF val.v < rule.critical THEN "HIGH"
    ELSE "CRITICAL"

\* rule i has its field in the readings and the value classifies, and its
\* key was not set less than 300 s before now
C23_Due(i, a, now) ==
    LET rule == a_rules[i]
    IN  /\ rule.field \in DOMAIN a.readings
        /\ C23_Sev(rule, a.readings[rule.field]) # "None"
        /\ now - CooldownsGet(cooldowns, AlertKey(a.city, rule.alert_type))
             >= ALERT_COOLDOWN_SECS

\* C23: a call of evaluate fires threshold alerts, in rule order, for
\* exactly the rules whose field is in the readings and whose value
\* classifies (and whose key is out of cooldown), each with the rule's
\* alert_type and the classified severity; absent fields and fields without
\* a rule fire nothing, and only the keys of fired records change.
C23_PathwayA ==
    [][a_calls' # a_calls =>
          LET a == a_args'
              now == clock'
              thr == SelectSeq(fired', LAMBDA r : r.message.kind = "threshold")
              due == {i \in 1..Len(a_rules) : C23_Due(i, a, now)}
          IN  /\ Len(thr) = Cardinality(due)
              /\ \A j \in 1..Len(thr) :
                    \E i \in due :
                        /\ thr[j].alert_type = a_rules[i].alert_type
                        /\ thr[j].severity
                             = C23_Sev(a_rules[i], a.readings[a_rules[i].field])
                        /\ thr[j].message.field = a_rules[i].field
                        /\ thr[j].city = a.city
                        /\ Cardinality({x \in due : x < i}) = j - 1
              /\ total_fired' = total_fired + Len(fired')
              /\ \A key \in DOMAIN cooldowns' :
                    \/ key \in DOMAIN cooldowns /\ cooldowns'[key] = cooldowns[key]
                    \/ /\ cooldowns'[key] = now
                       /\ \E j \in 1..Len(fired') :
                            key = AlertKey(a.city, fired'[j].alert_type)]_vars

\* a call with a CRITICAL co2_ppm, an aqi just under its lowest threshold
\* and a field without a rule fired CO2_HIGH alone among the rules
C23_Witness ==
    /\ ~a_args.none
    /\ DOMAIN a_args.readings = {"co2_ppm", "aqi", "humidity"}
    /\ Len(fired) >= 1
    /\ fired[1].alert_type = "CO2_HIGH" /\ fired[1].severity = "CRITICAL"
    /\ \A j \in 1..Len(fired) : fired[j].alert_type # "AQI_HIGH"
    /\ a_calls = 2

\* "ANOMALY_" + uppercase(field), for the fields of the events sent
C24_TypeOf(e) ==
    IF e.field = "co2_ppm" THEN "ANOMALY_CO2_PPM"
    ELSE IF e.field = "aqi" THEN "ANOMALY_AQI"
    ELSE "ANOMALY_?"

\* event n is the first of its field in the call, and the key of the call's
\* city and the event's type was not set less than 300 s before now
C24_Due(n, a, now) ==
    /\ \A m \in 1..(n - 1) : a.anomalies[m].field # a.anomalies[n].field
    /\ now - CooldownsGet(cooldowns, AlertKey(a.city, C24_TypeOf(a.anomalies[n])))
         >= ALERT_COOLDOWN_SECS

\* C24: for the supplied events, evaluate fires, in their order, a record of
\* alert_type "ANOMALY_" + uppercase(field), the event's severity and message
\* and the call's city, for each event whose key (the call's city, the type)
\* is out of cooldown; a second event of the same field, of whatever sensor,
\* is suppressed by the first.
C24_PathwayB ==
    [][a_calls' # a_calls =>
          LET a == a_args'
              now == clock'
              anom == SelectSeq(fired', LAMBDA r : r.message.kind = "anomaly")
              due == {n \in 1..Len(a.anomalies) : C24_Due(n, a, now)}
          IN  /\ Len(anom) = Cardinality(due)
              /\ \A j \in 1..Len(anom) :
                    \E n \in due :
                        /\ anom[j].alert_type = C24_TypeOf(a.anomalies[n])
                        /\ anom[j].severity = a.anomalies[n].severity
                        /\ anom[j].message = a.anomalies[n].message
                        /\ anom[j].city = a.city
                        /\ anom[j].timestamp = now
                        /\ Cardinality({x \in due : x < n}) = j - 1]_vars

\* two events of co2_ppm, of sensors s1 and s2, in a call for delhi: one
\* record, the first event's
C24_Witness ==
    /\ ~a_args.none
    /\ Len(a_args.anomalies) = 2
    /\ a_args.city = City("delhi")
    /\ Len(fired) = 2
    /\ fired[2].alert_type = "ANOMALY_CO2_PPM"
    /\ fired[2].severity = SampleEvent.severity
    /\ fired[2].city = City("delhi")

\* C29: evaluate skips a field whose reading is missing or non-finite (None,
\* NaN, +Inf, -Inf): no alert of that field's rule fires in the call and its
\* cooldown entry is not written.
C29_NonFiniteSkipped ==
    [][a_calls' # a_calls =>
          \A i \in 1..Len(a_rules) :
              LET rule == a_rules[i]
                  a == a_args'
                  key == AlertKey(a.city, rule.alert_type)
              IN  (/\ rule.field \in DOMAIN a.readings
                   /\ a.readings[rule.field] \in BadValues)
                      => /\ \A j \in 1..Len(fired') :
                               fired'[j].alert_type # rule.alert_type
                         /\ CooldownsGet(cooldowns', key)
                              = CooldownsGet(cooldowns, key)]_vars

\* C30: cooldown entries of distinct (city, alert_type) pairs are independent,
\* None being a city of its own: a rule whose reading qualifies fires unless
\* an alert of the same city and the same type fired less than 300 s before.
C30_CitiesIndependent ==
    [][a_calls' # a_calls =>
          \A i \in 1..Len(a_rules) :
              LET rule == a_rules[i]
                  a == a_args'
              IN  (/\ rule.field \in DOMAIN a.readings
                   /\ C23_Sev(rule, a.readings[rule.field]) # "None"
                   /\ ~\E l \in 1..Len(a_log) :
                          /\ a_log[l].city = a.city
                          /\ a_log[l].alert_type = rule.alert_type
                          /\ clock' - a_log[l].now < ALERT_COOLDOWN_SECS)
                      => \E j \in 1..Len(fired') :
                             fired'[j].alert_type = rule.alert_type]_vars

(***************************************************************************)
(* simulate called directly, with levers outside [0, 100] or NaN and       *)
(* baselines that put the new risk on and next to the alert-level bounds   *)
(***************************************************************************)
LevInit ==
    /\ \E t \in {-10, 0, 50, 100, 150, NanPct}, v \in {-10, 0, 50, 100, 150},
          i \in {-10, 0, 50, 100, 150},
          co2 \in {NoneVal, Num(400), Num(1000), Num(1500)},
          aqi \in {Num(20), Num(50), Num(149), Num(150)},
          temp \in {Num(25), Num(45)} :
         sim_in = [none |-> FALSE,
                   inp |-> SimulationInput(t, v, i, co2, aqi, NoneVal, temp),
                   live_co2 |-> NoneVal, live_aqi |-> NoneVal,
                   live_risk |-> NoneVal, live_temp |-> NoneVal]
    /\ sim_out = NoResult
    /\ clock = StartClock
    /\ DetInitWith({<<>>}, {<<>>}) /\ AlertIdle /\ ThrIdle /\ ExtIdle

SpecLevers == LevInit /\ [][SimNext]_vars

\* min(100, max(0, lever)); max(0, nan) keeps 0 because `nan > 0` is false
C25_Clamp(lever) == IF lever < 0 THEN 0 ELSE IF lever > 100 THEN 100 ELSE lever

\* the call with each lever replaced by its clamped value
C25_Clamped(a) ==
    [a EXCEPT !.inp.traffic_reduction_pct = C25_Clamp(@),
              !.inp.ventilation_increase_pct = C25_Clamp(@),
              !.inp.industry_reduction_pct = C25_Clamp(@)]

\* C25: the levers are clamped to [0, 100], not rejected: simulate(input)
\* equals simulate(input with clamped levers) in every field of the result,
\* the impact summary included (the timestamp is that of the call).
C25_LeversClamped ==
    ~sim_out.none => sim_out = SimulateResult(C25_Clamped(sim_in), sim_out.timestamp)

\* C26: for every input new_predicted_co2 >= 300, the recomputed AQI >= 10,
\* 0 <= new_risk_score <= 100, and for a positive baseline
\* ventilation_co2_diluted <= 0.30 * baseline_co2 whatever the lever.
\* (result fields in hundredths, the AQI of the trace in millionths)
C26_OutputBounds ==
    ~sim_out.none =>
        /\ sim_out.new_predicted_co2 >= 300 * 100
        /\ SimTrace(sim_in).new_aqi >= 10 * Micro
        /\ sim_out.new_risk_score >= 0 /\ sim_out.new_risk_score <= 100 * 100
        /\ sim_out.baseline_co2 > 0 =>
             100 * sim_out.ventilation_co2_diluted <= 30 * sim_out.baseline_co2

\* the CO2 floor, the AQI floor and the ventilation cap all bind in one call
C26_Witness ==
    /\ ~sim_out.none
    /\ sim_in.inp.ventilation_increase_pct = 150
    /\ sim_out.new_predicted_co2 = 300 * 100
    /\ sim_out.baseline_co2 - sim_out.co2_reduction_ppm < 300 * 100
    /\ SimTrace(sim_in).new_aqi = 10 * Micro
    /\ 100 * sim_out.ventilation_co2_diluted = 30 * sim_out.baseline_co2

\* C27: alert_level is a function of new_risk_score alone: SAFE under 30,
\* MODERATE from 30 to under 55, HIGH from 55 to under 75, CRITICAL from 75.
C27_AlertFromRisk ==
    ~sim_out.none =>
        sim_out.alert_level =
            IF sim_out.new_risk_score >= 7500 THEN "CRITICAL"
            ELSE IF sim_out.new_risk_score >= 5500 THEN "HIGH"
            ELSE IF sim_out.new_risk_score >= 3000 THEN "MODERATE"
            ELSE "SAFE"

\* a risk of exactly 30.00 is MODERATE
C27_Witness ==
    /\ ~sim_out.none
    /\ sim_out.new_risk_score = 3000
    /\ sim_out.alert_level = "MODERATE"


(***************************************************************************)
(* ingest with readings of very large magnitude: windows one sample short  *)
(* of MIN_WINDOW and full of history, two fields a call                    *)
(***************************************************************************)
HugeInit ==
    /\ DetInitWith({Prefix(Heavy, MIN_WINDOW - 1), Heavy}, {Prefix(Heavy, MIN_WINDOW - 1)})
    /\ clock = StartClock
    /\ OthersIdle

HugeNext ==
    \E s \in Sensors, r \in Dicts({Num(0), Num(44), Num(Huge)}, {Num(5), Num(Huge)}) :
        /\ Ingest(s, r, COOLDOWN_SECS, 0)
        /\ UNCHANGED <<d_args, not_det_vars>>

SpecHuge == HugeInit /\ [][HugeNext]_vars

\* C28: no call of ingest ends in an exception: every call returns its list
\* of events.  (evaluate and simulate have no raising step on the inputs of
\* the other specifications.)
C28_IngestReturns == ~d_raised


(***************************************************************************)
(* Concurrent evaluate_async calls on one event loop.  A coroutine runs    *)
(* without interruption from its start to `await session.commit()` and     *)
(* from the end of that await to its return; a call that does not persist  *)
(* never suspends.  Tasks start in the order of their creation.            *)
(***************************************************************************)
CoroInit ==
    /\ AlertIdle
    /\ clock = StartClock
    /\ threads = [t \in 1..MaxEvals |->
                    [pc |-> "start", alerts |-> <<>>, ret |-> <<>>,
                     commit |-> "not started"]]
    /\ DetInitWith({<<>>}, {<<>>}) /\ ThrIdle /\ SimIdle
    /\ ea = NoResult /\ db = NoResult /\ q_out = NoResult

\* 145-147 and 205-216: evaluate, the test, the session.add loop (added: all
\* adds succeeded), up to the await or, when nothing suspends, to the return
CoroStart(t, readings, city, anomalies, session, added, delta) ==
    /\ threads[t].pc = "start"
    /\ \A u \in DOMAIN threads : u < t => threads[u].pc # "start"
    /\ Evaluate(readings, city, anomalies, delta, 0)
    /\ threads' = [threads EXCEPT ![t] =
                     IF fired' # <<>> /\ session /\ added
                     THEN [pc |-> "commit", alerts |-> fired', ret |-> <<>>,
                           commit |-> "pending"]
                     ELSE [pc |-> "returned", alerts |-> fired', ret |-> fired',
                           commit |-> "not started"]]
    /\ UNCHANGED <<ea, db, q_out, det_vars, thr_vars, sim_vars>>

\* 216-219 and 149: the commit completes or raises (the exception is logged),
\* and the call returns its alerts
CoroResume(t, committed) ==
    /\ threads[t].pc = "commit"
    /\ threads' = [threads EXCEPT ![t].pc = "returned",
                                  ![t].ret = threads[t].alerts,
                                  ![t].commit = IF committed THEN "done"
                                                ELSE "failed"]
    /\ UNCHANGED <<ea, db, q_out, alert_vars, det_vars, thr_vars, sim_vars, clock>>

CoroNext ==
    \/ \E t \in DOMAIN threads, v \in {60000, 95000}, session \in BOOLEAN,
          added \in BOOLEAN, delta \in {ALERT_COOLDOWN_SECS - 1, ALERT_COOLDOWN_SECS} :
         CoroStart(t, [f \in {"co2_ppm"} |-> Num(v)], NoneCity, <<>>, session,
                   added, delta)
    \/ \E t \in DOMAIN threads, committed \in BOOLEAN : CoroResume(t, committed)

SpecCoro == CoroInit /\ [][CoroNext]_vars

\* the clock readings of the fires of one key, oldest first
C31_FiresOf(key) ==
    SelectSeq(a_log, LAMBDA e : AlertKey(e.city, e.alert_type) = key)

\* two fires of one key are a cooldown apart; total_fired, the history and
\* the cooldown table agree with the fires made; a returned call returned
\* the alerts its own evaluate fired
C31_Consistent ==
    /\ \A i, j \in 1..Len(a_log) :
          (i < j /\ AlertKey(a_log[i].city, a_log[i].alert_type)
                      = AlertKey(a_log[j].city, a_log[j].alert_type))
              => a_log[j].now - a_log[i].now >= ALERT_COOLDOWN_SECS
    /\ total_fired = Len(a_log)
    /\ Len(a_history) = Len(a_log)
    /\ \A i \in 1..Len(a_log) :
          /\ a_history[Len(a_log) + 1 - i].alert_type = a_log[i].alert_type
          /\ a_history[Len(a_log) + 1 - i].timestamp = a_log[i].now
    /\ DOMAIN cooldowns
          = {AlertKey(a_log[i].city, a_log[i].alert_type) : i \in 1..Len(a_log)}
    /\ \A key \in DOMAIN cooldowns :
          LET f == C31_FiresOf(key) IN cooldowns[key] = f[Len(f)].now
    /\ \A t \in DOMAIN threads :
          threads[t].pc = "returned" => threads[t].ret = threads[t].alerts

\* a step is one whole evaluate of one coroutine on the state it found, or
\* leaves the engine alone
C31_StepIsEvaluate ==
    IF a_calls' # a_calls
    THEN LET r == EvaluateResult([AlertState EXCEPT !.clock = clock'],
                                 a_args'.readings, a_args'.city,
                                 a_args'.anomalies, 0)
         IN  /\ <<cooldowns', a_history', total_fired'>>
                  = <<r.A.cooldowns, r.A.history, r.A.total_fired>>
             /\ \E t \in DOMAIN threads :
                   /\ threads[t].pc = "start"
                   /\ threads'[t].alerts = r.fired
                   /\ \A u \in DOMAIN threads \ {t} : threads'[u] = threads[u]
    ELSE UNCHANGED <<cooldowns, a_history, total_fired, fired>>

\* C31: coroutines that interleave at their awaits only behave like a serial
\* order of evaluate calls: each call's effect is that of one evaluate on the
\* state it found, at most one call fires a key within a cooldown window, and
\* total_fired, the history and the cooldown table stay consistent.
C31_SerialOrder == [](C31_Consistent) /\ [][C31_StepIsEvaluate]_vars

\* while the first call waits for its commit a second call for the same key
\* ran inside the cooldown and returned nothing
C31_Witness ==
    /\ threads[1].pc = "commit" /\ Len(threads[1].alerts) = 1
    /\ threads[2].pc = "returned" /\ threads[2].ret = <<>>
    /\ total_fired = 1 /\ Len(a_history) = 1
    /\ a_args.readings["co2_ppm"] = Num(95000)


(***************************************************************************)
(* Claims about what the baseline risk and the temperature reach           *)
(***************************************************************************)
\* the call sim_in with another baseline risk override and live risk
C32_WithRisk(risk, lr) ==
    [sim_in EXCEPT !.inp.baseline_risk = risk, !.live_risk = lr]

C32_Risks == {NoneVal, Num(0), Num(10), Num(70), Num(100)}

\* the summary without its risk sentence
C32_SummaryRest(o) ==
    <<o.impact_summary.headline, o.impact_summary.pct, o.impact_summary.breakdown,
      o.impact_summary.co2, o.impact_summary.alert>>

\* C32: a simulate call that differs from the one made only in the baseline
\* risk (override or live value) returns the same new_predicted_co2,
\* new_risk_score, alert_level and CO2 figures; baseline_risk is the resolved
\* risk and risk_reduction its distance to the new risk; and the temperature
\* term of the risk is the same for every lever setting.
C32_RiskRederived ==
    ~sim_out.none =>
        /\ \A risk \in C32_Risks, lr \in C32_Risks :
              LET o == SimulateResult(C32_WithRisk(risk, lr), sim_out.timestamp)
              IN  /\ o.new_predicted_co2 = sim_out.new_predicted_co2
                  /\ o.new_risk_score = sim_out.new_risk_score
                  /\ o.alert_level = sim_out.alert_level
                  /\ o.co2_reduction_ppm = sim_out.co2_reduction_ppm
                  /\ o.co2_reduction_pct = sim_out.co2_reduction_pct
                  /\ o.traffic_co2_saved = sim_out.traffic_co2_saved
                  /\ o.industry_co2_saved = sim_out.industry_co2_saved
                  /\ o.ventilation_co2_diluted = sim_out.ventilation_co2_diluted
                  /\ o.baseline_co2 = sim_out.baseline_co2
                  /\ C32_SummaryRest(o) = C32_SummaryRest(sim_out)
                  /\ o.risk_reduction = o.baseline_risk - o.new_risk_score
        /\ \A t \in LeverValues, v \in LeverValues, i \in LeverValues :
              SimTrace([sim_in EXCEPT !.inp.traffic_reduction_pct = t,
                                      !.inp.ventilation_increase_pct = v,
                                      !.inp.industry_reduction_pct = i]).n_temp
                  = SimTrace(sim_in).n_temp

\* a call with a baseline risk of 70 under the new risk it returns: the call
\* without the override reports another baseline risk and risk reduction, and
\* full levers leave the temperature term of 35 degrees in place
C32_Witness ==
    /\ ~sim_out.none
    /\ sim_in.inp.baseline_risk = Num(70)
    /\ sim_in.inp.traffic_reduction_pct = 100
    /\ sim_out.baseline_risk = 7000
    /\ sim_out.new_risk_score > 0
    /\ sim_out.risk_reduction = 7000 - sim_out.new_risk_score
    /\ SimTrace(sim_in).n_temp = Micro \div 2
    /\ LET o == SimulateResult(C32_WithRisk(NoneVal, NoneVal), sim_out.timestamp)
       IN  /\ o.baseline_risk = 4500
           /\ o.risk_reduction # sim_out.risk_reduction
           /\ o.new_risk_score = sim_out.new_risk_score


(***************************************************************************)
(* _percentiles on the snapshots of one window: every sequence of up to    *)
(* MaxLen samples, sorted or not, and the long warm-up windows             *)
(***************************************************************************)
MaxLen == 5

QuartInit ==
    /\ \E w \in UNION {[1..n -> {0, 1, 2, 5}] : n \in 0..MaxLen}
                 \cup {Spread, Heavy, Heavy \o <<5>>} :
         windows = [k \in DetKeys |-> IF k[2] = "co2_ppm" THEN w ELSE <<>>]
    /\ last_alert = <<>> /\ d_history = <<>> /\ found = <<>> /\ d_log = <<>>
    /\ d_calls = 0 /\ d_args = NoArgs /\ received = windows /\ d_raised = FALSE
    /\ clock = StartClock /\ OthersIdle

\* 192: `q1, q3 = _percentiles(snapshot)`, the quartiles doubled
QuartNext ==
    /\ q_out = NoResult
    /\ \E k \in DetKeys :
         q_out' = [none |-> FALSE, op |-> "_percentiles", key |-> k,
                   q |-> Percentiles(windows[k])]
    /\ UNCHANGED <<threads, ea, db, alert_vars, det_vars, thr_vars, sim_vars, clock>>

SpecQuartiles == QuartInit /\ [][QuartNext]_vars

\* the k-th smallest of the samples of s, by counting
C33_Kth(s, k) ==
    CHOOSE x \in {s[i] : i \in 1..Len(s)} :
        /\ Cardinality({i \in 1..Len(s) : s[i] < x}) < k
        /\ k <= Cardinality({i \in 1..Len(s) : s[i] <= x})

\* twice the median of the h samples of s ranked off + 1 .. off + h
C33_TwiceMedian(s, off, h) ==
    IF h % 2 = 1 THEN 2 * C33_Kth(s, off + (h + 1) \div 2)
    ELSE C33_Kth(s, off + h \div 2) + C33_Kth(s, off + h \div 2 + 1)

\* C33: for a snapshot of n >= 2 values _percentiles returns as Q1 the median
\* of the floor(n/2) lowest and as Q3 the median of the floor(n/2) highest
\* values (the middle one in neither half when n is odd), the median of an
\* even-sized list being the mean of its two central values; so Q1 <= Q3.
C33_MedianOfHalves ==
    ~q_out.none =>
        LET s == windows[q_out.key]
            n == Len(s)
            h == n \div 2
        IN  n >= 2 =>
              /\ q_out.q.q1 = C33_TwiceMedian(s, 0, h)
              /\ q_out.q.q3 = C33_TwiceMedian(s, n - h, h)
              /\ q_out.q.q1 <= q_out.q.q3

\* the quartiles of the unsorted snapshot 5, 0, 2, 1, 2: the middle 2 is in
\* neither half, Q1 = 0.5 and Q3 = 3.5
C33_Witness ==
    /\ ~q_out.none
    /\ windows[q_out.key] = <<5, 0, 2, 1, 2>>
    /\ q_out.q = [q1 |-> 1, q3 |-> 7]


(***************************************************************************)
(* The composed flow for one sensor and one city: each reading goes to     *)
(* AnomalyDetector.ingest, then the same reading and the events ingest     *)
(* returned go to AlertEngine.evaluate.  The clock starts at the usual     *)
(* epoch reading or below both cooldown lengths.                           *)
(***************************************************************************)
FlowInit ==
    /\ DetInitWith({Heavy}, {<<>>})
    /\ AlertIdle /\ ThrIdle /\ SimIdle /\ ExtIdle
    /\ clock \in {0, StartClock}

\* co2_ppm readings far below the CO2 thresholds: ingest delta seconds after
\* the last clock reading, evaluate gap seconds after ingest
FlowNext ==
    \/ \E v \in {0, 44}, delta \in {COOLDOWN_SECS, ALERT_COOLDOWN_SECS - 1,
                                    ALERT_COOLDOWN_SECS} :
         /\ d_calls = a_calls
         /\ Ingest("s1", <<<<"co2_ppm", Num(v)>>>>, delta, 0)
         /\ d_args' = [none |-> FALSE, sensor_id |-> "s1",
                       readings |-> <<<<"co2_ppm", Num(v)>>>>,
                       delta |-> delta, drift |-> 0]
         /\ UNCHANGED not_det_vars
    \/ \E gap \in {0, 1} :
         /\ d_calls = a_calls + 1
         /\ Evaluate([f \in {"co2_ppm"} |-> Num(100 * d_args.readings[1][2].v)],
                     City("delhi"), found, gap, 0)
         /\ UNCHANGED <<det_vars, thr_vars, sim_vars, ext_vars>>

SpecFlow == FlowInit /\ [][FlowNext]_vars

\* the AlertEngine key of the anomaly alerts of event e for the city
C34_Key(e) == AlertKey(a_args.city, "ANOMALY_" \o Upper(e.field))

\* C34: the two cooldown tables are independent.  When evaluate receives a
\* detector event less than 300 s after the last anomaly alert of its field
\* and city it fires no AlertRecord and keeps its cooldown entry, although
\* the detector (whose cooldown of 120 s had passed) has advanced its own
\* last_alert to the event; anomaly alerts of one key are 300 s apart.
C34_TablesIndependent ==
    /\ [][a_calls' # a_calls =>
            \A i \in 1..Len(found) :
                LET key == AlertKey(a_args'.city, "ANOMALY_" \o Upper(found[i].field))
                IN  (key \in DOMAIN cooldowns
                         /\ clock' - cooldowns[key] < ALERT_COOLDOWN_SECS)
                    => /\ \A j \in 1..Len(fired') :
                             fired'[j].alert_type # "ANOMALY_" \o Upper(found[i].field)
                       /\ cooldowns'[key] = cooldowns[key]
                       /\ last_alert[<<found[i].sensor_id, found[i].field>>]
                             = found[i].timestamp
                       /\ found[i].timestamp > cooldowns[key]]_vars
    /\ [](\A i, j \in 1..Len(a_log) :
             (i < j /\ a_log[i].alert_type = a_log[j].alert_type
                    /\ a_log[i].city = a_log[j].city)
                 => a_log[j].now - a_log[i].now >= ALERT_COOLDOWN_SECS)

\* the detector emitted a second event 120 s after the first: the first was
\* fired as an alert, the second was not, and the detector moved on
C34_Witness ==
    /\ d_calls = 2 /\ a_calls = 2
    /\ Len(d_log) = 2 /\ Len(found) = 1
    /\ Len(a_log) = 1 /\ fired = <<>>
    /\ a_log[1].alert_type = "ANOMALY_CO2_PPM"
    /\ last_alert[<<"s1", "co2_ppm">>] - cooldowns[C34_Key(found[1])] = COOLDOWN_SECS
    /\ clock - cooldowns[C34_Key(found[1])] < ALERT_COOLDOWN_SECS


\* the value ingest just received for key k is an anomaly of its snapshot
C36_Qualifies(k) ==
    LET snapshot == windows[k]
        value == d_args'.readings[1][2].v
        ms == MeanStd(snapshot)
        z == IF StdPositive(ms) THEN ZScore(value, ms) ELSE ZNull
    IN  /\ ~TooLittleHistory(snapshot)
        /\ ZFlag(z) \/ IqrFlag(snapshot, value)

\* C36: a key that has never fired is never suppressed, whatever the clock
\* reads: an anomalous value for a key absent from the detector's last_alert
\* is emitted, and an event for a key absent from the AlertEngine's
\* cooldowns is fired.
C36_FirstAlwaysFires ==
    [][IF d_calls' # d_calls
       THEN LET k == <<d_args'.sensor_id, d_args'.readings[1][1]>>
            IN  (k \notin DOMAIN last_alert /\ C36_Qualifies(k)) => found' # <<>>
       ELSE IF a_calls' # a_calls
       THEN \A i \in 1..Len(found) :
                (AlertKey(a_args'.city, "ANOMALY_" \o Upper(found[i].field))
                     \notin DOMAIN cooldowns)
                => (\E j \in 1..Len(fired') :
                       fired'[j].alert_type = "ANOMALY_" \o Upper(found[i].field))
       ELSE TRUE]_vars


(***************************************************************************)
(* Claims about severity and the AlertEngine cooldown                      *)
(***************************************************************************)
\* the records of the history for one city and alert type, newest first
C35_RecordsOf(h, city, alert_type) ==
    SelectSeq(h, LAMBDA r : r.alert_type = alert_type /\ r.city = city)

\* C35: the dedup key ignores severity.  A reading that classifies at any
\* severity, also one above that of the alert that fired, fires nothing while
\* its (city, alert_type) is in cooldown: the records of the key in the
\* history, and so the severity the window shows, stay those of the fire.
C35_SeverityIgnored ==
    [][a_calls' # a_calls =>
          \A i \in 1..Len(a_rules) :
              LET rule == a_rules[i]
                  value == ReadingsGet(a_args'.readings, rule.field)
                  key == AlertKey(a_args'.city, rule.alert_type)
              IN  (/\ ClassifyThreshold(rule, value) # "None"
                   /\ key \in DOMAIN cooldowns
                   /\ clock' - cooldowns[key] < ALERT_COOLDOWN_SECS)
                  => /\ \A j \in 1..Len(fired') :
                           fired'[j].alert_type # rule.alert_type
                     /\ cooldowns'[key] = cooldowns[key]
                     /\ C35_RecordsOf(a_history', a_args'.city, rule.alert_type)
                           = C35_RecordsOf(a_history, a_args'.city, rule.alert_type)]_vars

\* a CRITICAL reading 299 s after the LOW alert of its key fired nothing: the
\* history shows the key at LOW
C35_Witness ==
    /\ a_calls = 2
    /\ ~a_args.none
    /\ ReadingsGet(a_args.readings, "co2_ppm") = Num(95000)
    /\ fired = <<>>
    /\ Len(a_log) = 1
    /\ clock - a_log[1].now = ALERT_COOLDOWN_SECS - 1
    /\ Len(a_history) = 1
    /\ a_history[1].severity = "LOW" /\ a_history[1].alert_type = "CO2_HIGH"
    /\ a_history[1].city = a_args.city


\* C37: the timestamp of every fired AlertRecord is the clock reading stored
\* in the cooldown table by the same fire, so the records of one key in the
\* history have timestamps at least 300 s apart.
C37_TimestampIsLastFired ==
    /\ \A i \in 1..Len(a_history) :
          i <= Len(a_log) => a_history[i].timestamp = a_log[Len(a_log) + 1 - i].now
    /\ \A i, j \in 1..Len(a_history) :
          (i < j /\ a_history[i].alert_type = a_history[j].alert_type
                 /\ a_history[i].city = a_history[j].city)
              => a_history[i].timestamp - a_history[j].timestamp >= ALERT_COOLDOWN_SECS


\* |x - y| <= 1: equal up to the rounding of the last digit
C38_Near(x, y) == x - y <= 1 /\ y - x <= 1

\* C38: in every SimulationResult co2_reduction_ppm is baseline_co2 minus
\* new_predicted_co2 and co2_reduction_pct is that difference as a percentage
\* of baseline_co2 (both up to rounding), also when the floor of 300 ppm is
\* what new_predicted_co2 shows.
C38_ResultConsistent ==
    ~sim_out.none =>
        LET d == sim_out.baseline_co2 - sim_out.new_predicted_co2
        IN  /\ C38_Near(sim_out.co2_reduction_ppm, d)
            /\ C38_Near(sim_out.co2_reduction_pct,
                        RoundDiv(d * 1000, sim_out.baseline_co2))


\* C39: an emitted AnomalyEvent whose snapshot has std > 1e-10 carries the
\* z_score |value - mean| / std (as z*z, the variance being var_num over
\* n*n*(n-1) and the mean mu_num over n), and z_score is null only when the
\* std is not above 1e-10.
C39_ZScoreCarried ==
    \A i \in 1..Len(d_history) :
        LET e == d_history[i]
            d == e.value * e.mean[2] - e.mean[1]
        IN  IF e.std[1] > 0
            THEN /\ ~e.z_score.null
                 /\ e.z_score.num = d * d * (e.std[2] \div (e.mean[2] * e.mean[2]))
                 /\ e.z_score.den = e.std[1]
            ELSE e.z_score.null

====
